---- MODULE Spec2Model ----
(***************************************************************************)
(* Consumer API core: correlation / lane-access resolution and the         *)
(* finishUserTask completion rendezvous.                                   *)
(*                                                                         *)
(* The repository holds three parallel implementations of the same API:    *)
(*   "AdapterV1"  ConsumerApiProcessEngineAdapter, first copy              *)
(*                (process_engine_adapter.ts lines 72-1313)                *)
(*   "AdapterV2"  ConsumerApiProcessEngineAdapter, second copy             *)
(*                (process_engine_adapter.ts lines 1387-2626)              *)
(*   "Service"    ConsumerApiService (ioc_module.js lines 99-430 and       *)
(*                unnamed/part_000 lines 37-416, same rendezvous code)     *)
(* The variable impl says which of them serves the requests of a run.      *)
(***************************************************************************)
EXTENDS Integers, Sequences, FiniteSets, TLC

VARIABLES
  impl,          \* the implementation that serves the requests
  definitions,   \* engine store: process definitions with their lane sets
  processes,     \* engine store: process instances
  nodeInstances, \* engine store: flow-node instances (user tasks, call activities)
  subscriptions, \* event aggregator: the registered handlers
  inflight,      \* event aggregator: deliveries handed to a handler, not yet run
  busLog,        \* the bus calls of the finishUserTask requests, in call order
  calls,         \* the finishUserTask requests
  disposals,     \* per request: how often its subscription was disposed
  lastEvent,     \* per request: the last event its handler was invoked with
  lastRead,      \* the last read request and its outcome
  noise          \* number of non-completion events the engine has published

vars == <<impl, definitions, processes, nodeInstances, subscriptions, inflight,
          busLog, calls, disposals, lastEvent, lastRead, noise>>

Undefined == "undefined"

(***************************************************************************)
(* Bounds                                                                  *)
(***************************************************************************)
MaxNoise == 1
\* invocations of _getSubProcessInstances one request is followed through
MaxInvocations == 6

Implementations == {"AdapterV1", "AdapterV2", "Service"}
Adapters == {"AdapterV1", "AdapterV2"}
CallIds == {"r1", "r2"}

(***************************************************************************)
(* Identities: an identity is the set of claims it holds.                  *)
(* ConsumerApiIamService.hasClaim is a lookup in that set.                 *)
(***************************************************************************)
Claims == {"cA", "cB"}
Identities == {{}, {"cA"}, {"cA", "cB"}}

hasClaim(identity, claimName) == claimName \in identity

(***************************************************************************)
(* The engine store the requests run against.                              *)
(*                                                                         *)
(*  PM1  lane set LS1 = <<L2, L1, L5>>                                     *)
(*         L2  "cA"  {UT2, Start1}                                         *)
(*         L1  "cA"  {UT1, Start1}  child lane set LS1a = <<L1a>>          *)
(*           L1a "cB" {UT1}                                                *)
(*         L5  ""    {UT4}           (lane without a name)                 *)
(*       user tasks UT2, UT1, UT4, UT0 (UT0 is in no lane)                 *)
(*       call activity CA1 -> PM2                                          *)
(*  PM2  lane set LS2 = <<L4>>,  L4 "cB" {UT3, Start2}; user task UT3      *)
(*  PM3  no lane set; user task UT5 without form fields                    *)
(***************************************************************************)
LaneTable ==
  [ L1  |-> [id |-> "L1",  name |-> "cA", childLaneSet |-> "LS1a",
             flowNodeRef |-> {"UT1", "Start1"}],
    L1a |-> [id |-> "L1a", name |-> "cB", childLaneSet |-> Undefined,
             flowNodeRef |-> {"UT1"}],
    L2  |-> [id |-> "L2",  name |-> "cA", childLaneSet |-> Undefined,
             flowNodeRef |-> {"UT2", "Start1"}],
    L4  |-> [id |-> "L4",  name |-> "cB", childLaneSet |-> Undefined,
             flowNodeRef |-> {"UT3", "Start2"}],
    L5  |-> [id |-> "L5",  name |-> "",   childLaneSet |-> Undefined,
             flowNodeRef |-> {"UT4"}] ]

LaneSetTable ==
  [ LS1  |-> <<"L2", "L1", "L5">>,
    LS1a |-> <<"L1a">>,
    LS2  |-> <<"L4">> ]

\* nodeDef.extensions of a flow node, as far as the form fields go: extensions
\* undefined or null, extensions.formFields undefined or empty, or form fields.
FormFieldShapes ==
  {"extensionsUndefined", "extensionsNull", "formFieldsUndefined", "formFieldsEmpty",
   "formFields"}

FlowNode(key, type, formFields, subProcessKey) ==
  [key |-> key, type |-> type, formFields |-> formFields, subProcessKey |-> subProcessKey]

ProcessDefTable ==
  [ PM1 |-> [key |-> "PM1", isExecutable |-> TRUE, laneSets |-> <<"LS1">>,
             flowNodes |-> << FlowNode("Start1", "startEvent", "extensionsUndefined", Undefined),
                              FlowNode("UT2", "userTask", "formFields", Undefined),
                              FlowNode("UT1", "userTask", "formFields", Undefined),
                              FlowNode("UT4", "userTask", "formFields", Undefined),
                              FlowNode("UT0", "userTask", "formFields", Undefined),
                              FlowNode("CA1", "callActivity", "extensionsUndefined", "PM2"),
                              FlowNode("Timer1", "intermediateCatchEvent", "extensionsUndefined", Undefined),
                              FlowNode("End1", "endEvent", "extensionsUndefined", Undefined) >>],
    PM2 |-> [key |-> "PM2", isExecutable |-> TRUE, laneSets |-> <<"LS2">>,
             flowNodes |-> << FlowNode("Start2", "startEvent", "extensionsUndefined", Undefined),
                              FlowNode("UT3", "userTask", "formFields", Undefined),
                              FlowNode("End2", "endEvent", "extensionsUndefined", Undefined) >>],
    PM3 |-> [key |-> "PM3", isExecutable |-> FALSE, laneSets |-> << >>,
             flowNodes |-> << FlowNode("Start3", "startEvent", "extensionsUndefined", Undefined),
                              FlowNode("UT5", "userTask", "extensionsUndefined", Undefined) >>] ]

DefinitionStore ==
  [processDefs |-> ProcessDefTable, laneSets |-> LaneSetTable, lanes |-> LaneTable]

ProcessModelKeys == {"PM1", "PM2", "PM3", "PMx"}
CorrelationIds == {"corr1", "corr2", "corrX"}

\* Process instances: PI1 is the main instance of corr1 and calls PI2 through the
\* call-activity instance N_CA1; PI3 is the main instance of corr2.
ProcessTable ==
  [ PI1 |-> [id |-> "PI1", processDefKey |-> "PM1", correlationId |-> "corr1",
             callerId |-> Undefined, isSubProcess |-> FALSE],
    PI2 |-> [id |-> "PI2", processDefKey |-> "PM2", correlationId |-> "corr1",
             callerId |-> "N_CA1", isSubProcess |-> TRUE],
    PI3 |-> [id |-> "PI3", processDefKey |-> "PM1", correlationId |-> "corr2",
             callerId |-> Undefined, isSubProcess |-> FALSE] ]

\* The order in which the store lists process instances (those it holds).
ProcessOrder == <<"PI1", "PI2", "PI3", "PI4">>

NodeInstance(id, key, type, process, state) ==
  [id |-> id, key |-> key, type |-> type, process |-> process, state |-> state]

\* Flow-node instances, in the order the store lists them.
NodeInstanceOrder ==
  <<"T1", "T2", "T0", "N_CA1", "N_TM1", "T3", "T6", "N_CA2", "N_CA3", "T7",
    "E1", "E2", "E3">>

NodeInstanceTable ==
  [ T1    |-> NodeInstance("T1", "UT1", "userTask", "PI1", "wait"),
    T2    |-> NodeInstance("T2", "UT2", "userTask", "PI1", "wait"),
    T0    |-> NodeInstance("T0", "UT0", "userTask", "PI1", "wait"),
    N_CA1 |-> NodeInstance("N_CA1", "CA1", "callActivity", "PI1", "wait"),
    N_TM1 |-> NodeInstance("N_TM1", "Timer1", "intermediateCatchEvent", "PI1", "wait"),
    T3    |-> NodeInstance("T3", "UT3", "userTask", "PI2", "wait"),
    T6    |-> NodeInstance("T6", "UT1", "userTask", "PI3", "wait") ]

UserTaskKeys == {"UT0", "UT1", "UT2", "UT3", "UT4"}

\* ---- sequence helpers ------------------------------------------------------
RECURSIVE SeqFilterIdx(_, _, _)
SeqFilterIdx(s, keep, i) ==
  IF i > Len(s) THEN << >>
  ELSE (IF keep[i] THEN <<s[i]>> ELSE << >>) \o SeqFilterIdx(s, keep, i + 1)

Range(s) == {s[i] : i \in 1..Len(s)}


Ok(v) == [err |-> "none", val |-> v]
Err(e) == [err |-> e, val |-> << >>]

\* await r: an error is thrown on, a value is handed to the rest of the function.
Then(r, Continue(_)) == IF r.err # "none" THEN r ELSE Continue(r.val)

FilterSeq(s, Test(_)) ==
  SeqFilterIdx(s, [i \in 1..Len(s) |-> Test(s[i])], 1)

RECURSIVE Flatten(_)
Flatten(ss) == IF Len(ss) = 0 THEN << >> ELSE Head(ss) \o Flatten(Tail(ss))

(***************************************************************************)
(* Lane access resolver and lane lookup (both adapter copies)              *)
(***************************************************************************)
RECURSIVE _getLanesThatCanBeAccessed(_, _), LanesThatCanBeAccessedFrom(_, _, _)

\* The loop without the check of the lane name.
LanesThatCanBeAccessedFrom_NoNameCheck(identity, lanes, i) ==
  IF i > Len(lanes) THEN << >>
  ELSE LET lane == definitions.lanes[lanes[i]]
       IN IF ~hasClaim(identity, lane.name)
          THEN LanesThatCanBeAccessedFrom(identity, lanes, i + 1)
          ELSE <<lane>> \o _getLanesThatCanBeAccessed(identity, lane.childLaneSet)
                        \o LanesThatCanBeAccessedFrom(identity, lanes, i + 1)

\* The loop entering the child lane set of every lane, accessible or not.
LanesThatCanBeAccessedFrom_EnterAll(identity, lanes, i) ==
  IF i > Len(lanes) THEN << >>
  ELSE LET lane == definitions.lanes[lanes[i]]
           claimIsInvalid == lane.name = Undefined \/ lane.name = ""
       IN (IF claimIsInvalid \/ ~hasClaim(identity, lane.name) THEN << >> ELSE <<lane>>)
          \o _getLanesThatCanBeAccessed(identity, lane.childLaneSet)
          \o LanesThatCanBeAccessedFrom(identity, lanes, i + 1)

\* The loop body of _getLanesThatCanBeAccessed, from lane i of the lane set on.
LanesThatCanBeAccessedFrom(identity, lanes, i) ==
  IF i > Len(lanes) THEN << >>
  ELSE LET lane == definitions.lanes[lanes[i]]
           claimIsInvalid == lane.name = Undefined \/ lane.name = ""
       IN IF claimIsInvalid
          THEN LanesThatCanBeAccessedFrom(identity, lanes, i + 1)
          ELSE IF ~hasClaim(identity, lane.name)
          THEN LanesThatCanBeAccessedFrom(identity, lanes, i + 1)
          ELSE <<lane>> \o _getLanesThatCanBeAccessed(identity, lane.childLaneSet)
                        \o LanesThatCanBeAccessedFrom(identity, lanes, i + 1)

_getLanesThatCanBeAccessed(identity, laneSet) ==
  IF laneSet = Undefined THEN << >>
  ELSE LanesThatCanBeAccessedFrom(identity, definitions.laneSets[laneSet], 1)

_getProcessModelByKey(processModelKey) ==
  IF processModelKey \in DOMAIN definitions.processDefs
  THEN Ok(<<definitions.processDefs[processModelKey]>>)
  ELSE Err("NotFound")

RECURSIVE AccessibleLanesOfLaneSets(_, _, _)
AccessibleLanesOfLaneSets(identity, laneSets, i) ==
  IF i > Len(laneSets) THEN << >>
  ELSE _getLanesThatCanBeAccessed(identity, laneSets[i])
       \o AccessibleLanesOfLaneSets(identity, laneSets, i + 1)

\* AdapterV2 walks every lane set of the definition; AdapterV1 reads the single
\* laneSet of the stored process (undefined when the process has none).
_getIdsOfLanesThatCanBeAccessed(variant, identity, processModelKey) ==
  LET Ids(accessibleLanes) == Ok([i \in 1..Len(accessibleLanes) |-> accessibleLanes[i].id])
      Lanes(processModel) ==
        LET laneSets == processModel[1].laneSets
        IN Ids(IF variant = "AdapterV1"
               THEN _getLanesThatCanBeAccessed(identity,
                      IF Len(laneSets) = 0 THEN Undefined ELSE laneSets[1])
               ELSE AccessibleLanesOfLaneSets(identity, laneSets, 1))
  IN Then(_getProcessModelByKey(processModelKey), Lanes)

\* The first lane that has a child lane set decides the result of its lane set:
\* the search returns what the child lane set yields, found or not.
RECURSIVE _getClosestLaneIdToElement(_, _), ClosestLaneIdFrom(_, _, _)
ClosestLaneIdFrom(lanes, elementId, i) ==
  IF i > Len(lanes) THEN Undefined
  ELSE LET lane == definitions.lanes[lanes[i]]
       IN IF lane.childLaneSet # Undefined
          THEN _getClosestLaneIdToElement(lane.childLaneSet, elementId)
          ELSE IF elementId \in lane.flowNodeRef
          THEN lane.id
          ELSE ClosestLaneIdFrom(lanes, elementId, i + 1)

_getClosestLaneIdToElement(laneSet, elementId) ==
  ClosestLaneIdFrom(definitions.laneSets[laneSet], elementId, 1)

RECURSIVE LaneIdForElementFrom(_, _, _)
LaneIdForElementFrom(laneSets, elementId, i) ==
  IF i > Len(laneSets) THEN Undefined
  ELSE LET FirstDefined(closestLaneId) ==
             IF closestLaneId # Undefined THEN closestLaneId
             ELSE LaneIdForElementFrom(laneSets, elementId, i + 1)
       IN FirstDefined(_getClosestLaneIdToElement(laneSets[i], elementId))

_getLaneIdForElement(processDefinitions, elementId) ==
  LaneIdForElementFrom(processDefinitions.laneSets, elementId, 1)

(***************************************************************************)
(* Engine queries                                                          *)
(***************************************************************************)
\* All flow-node instances / process instances, in store order.
AllNodeInstances ==
  LET Held(id) == id \in DOMAIN nodeInstances
      Entities(ids) == [i \in 1..Len(ids) |-> nodeInstances[ids[i]]]
  IN Entities(FilterSeq(NodeInstanceOrder, Held))
AllProcesses ==
  LET Held(id) == id \in DOMAIN processes
      Entities(ids) == [i \in 1..Len(ids) |-> processes[ids[i]]]
  IN Entities(FilterSeq(ProcessOrder, Held))

FlowNodeOf(processDefKey, key) ==
  LET nodes == definitions.processDefs[processDefKey].flowNodes
  IN nodes[CHOOSE i \in 1..Len(nodes) : nodes[i].key = key]

\* NodeDef entities of one type of a process model (empty for an unknown model).
_getNodesByTypeForProcessModel(processModelKey, nodeType) ==
  IF processModelKey \notin DOMAIN definitions.processDefs THEN << >>
  ELSE LET IsOfType(n) == n.type = nodeType
       IN FilterSeq(definitions.processDefs[processModelKey].flowNodes, IsOfType)

\* UserTask entities in state 'wait' of the instances of a process model.
_getUserTasksForProcessModel(processModelKey) ==
  LET Waits(n) == /\ n.type = "userTask"
                  /\ n.state = "wait"
                  /\ processes[n.process].processDefKey = processModelKey
  IN FilterSeq(AllNodeInstances, Waits)

\* UserTask entities in state 'wait' of one process instance.
_getUserTasksForProcessInstance(processInstanceId) ==
  LET Waits(n) == n.type = "userTask" /\ n.state = "wait" /\ n.process = processInstanceId
  IN FilterSeq(AllNodeInstances, Waits)

_getCallActivitiesForProcessInstance(processInstanceId) ==
  LET IsCall(n) == n.process = processInstanceId /\ n.type = "callActivity"
  IN FilterSeq(AllNodeInstances, IsCall)

\* The query built from the first caller id only.
_getCalledProcessesViaCallerIds_FirstCallerOnly(callerIds) ==
  IF Len(callerIds) = 0 THEN << >>
  ELSE LET Called(p) == p.callerId = callerIds[1]
       IN FilterSeq(AllProcesses, Called)

_getCalledProcessesViaCallerIds(callerIds) ==
  IF Len(callerIds) = 0 THEN << >>
  ELSE LET Called(p) == p.callerId \in Range(callerIds)
       IN FilterSeq(AllProcesses, Called)

RECURSIVE _getSubProcessInstances(_)
_getSubProcessInstances(parentProcessInstanceId) ==
  LET IdsOf(nodes) == [i \in 1..Len(nodes) |-> nodes[i].id]
      WithSubProcesses(procs) ==
        procs \o Flatten([i \in 1..Len(procs) |-> _getSubProcessInstances(procs[i].id)])
  IN WithSubProcesses(_getCalledProcessesViaCallerIds(
       IdsOf(_getCallActivitiesForProcessInstance(parentProcessInstanceId))))

\* NotFound when no instance carries the correlation id; reading .id of the
\* undefined result of find() is a TypeError when only sub-processes carry it.
_getMainProcessInstanceIdFromCorrelation(correlationId) ==
  LET InCorrelation(p) == p.correlationId = correlationId
      IsMain(p) == p.isSubProcess = FALSE
      IdOfFirst(mains) == IF Len(mains) = 0 THEN Err("TypeError") ELSE Ok(<<mains[1].id>>)
      MainOf(matchingProcesses) ==
        IF Len(matchingProcesses) = 0 THEN Err("NotFound")
        ELSE IdOfFirst(FilterSeq(matchingProcesses, IsMain))
  IN MainOf(FilterSeq(AllProcesses, InCorrelation))

_getProcessInstanceById(processInstanceId) ==
  IF processInstanceId \in DOMAIN processes
  THEN Ok(<<processes[processInstanceId]>>)
  ELSE Err("NotFound")

\* AdapterV2: main instance, then the instances reached through call activities.
\* AdapterV1: what the storage service lists for the correlation id.
_getProcessInstancesForCorrelation(variant, correlationId) ==
  IF variant = "AdapterV1"
  THEN LET InCorrelation(p) == p.correlationId = correlationId
       IN Ok(FilterSeq(AllProcesses, InCorrelation))
  ELSE LET WithMainId(mainId) ==
             LET WithMain(main) == Ok(main \o _getSubProcessInstances(mainId[1]))
             IN Then(_getProcessInstanceById(mainId[1]), WithMain)
       IN Then(_getMainProcessInstanceIdFromCorrelation(correlationId), WithMainId)

RECURSIVE _getSubProcessModelKeys(_)
_getSubProcessModelKeys(processModelKey) ==
  LET KeysOf(callActivities) ==
        [i \in 1..Len(callActivities) |-> callActivities[i].subProcessKey]
        \o Flatten([i \in 1..Len(callActivities) |->
                      _getSubProcessModelKeys(callActivities[i].subProcessKey)])
  IN KeysOf(_getNodesByTypeForProcessModel(processModelKey, "callActivity"))

_getProcessModelKeysForCorrelation(variant, correlationId) ==
  IF variant = "AdapterV1"
  THEN LET KeysOf(instances) == Ok([i \in 1..Len(instances) |-> instances[i].processDefKey])
       IN Then(_getProcessInstancesForCorrelation(variant, correlationId), KeysOf)
  ELSE LET WithMainId(mainId) ==
             LET WithMain(main) ==
                   Ok(<<main[1].processDefKey>>
                      \o _getSubProcessModelKeys(main[1].processDefKey))
             IN Then(_getProcessInstanceById(mainId[1]), WithMain)
       IN Then(_getMainProcessInstanceIdFromCorrelation(correlationId), WithMainId)

_processModelBelongsToCorrelation(variant, correlationId, processModelKey) ==
  LET Belongs(processModelKeys) == Ok(<<processModelKey \in Range(processModelKeys)>>)
  IN Then(_getProcessModelKeysForCorrelation(variant, correlationId), Belongs)

(***************************************************************************)
(* Task / event visibility filter                                          *)
(***************************************************************************)
\* A task of the public contract. ofInstance records the suspended flow-node
\* instance the entry was produced for (not part of the contract).
Task(key, id, processInstanceId, ofInstance) ==
  [key |-> key, id |-> id, processInstanceId |-> processInstanceId, ofInstance |-> ofInstance]

\* A user task as the queries of the adapter copies hand it on; node is the
\* suspended flow-node instance behind it.
UserTaskEntity(key, id, process, formFields, node) ==
  [key |-> key, id |-> id, process |-> process, formFields |-> formFields, node |-> node]

\* AdapterV1 _getUserTasks: the user tasks of the flow-node list followed by the
\* user tasks the lanes reference, collected recursively.
RECURSIVE _getUserTasksFromLaneRecursively(_, _), UserTasksFromLanesFrom(_, _, _)
UserTasksFromLanesFrom(processDefinition, lanes, i) ==
  IF i > Len(lanes) THEN << >>
  ELSE LET lane == definitions.lanes[lanes[i]]
           Referenced(n) == n.type = "userTask" /\ n.key \in lane.flowNodeRef
       IN FilterSeq(processDefinition.flowNodes, Referenced)
          \o _getUserTasksFromLaneRecursively(processDefinition, lane.childLaneSet)
          \o UserTasksFromLanesFrom(processDefinition, lanes, i + 1)

_getUserTasksFromLaneRecursively(processDefinition, laneSet) ==
  IF laneSet = Undefined THEN << >>
  ELSE UserTasksFromLanesFrom(processDefinition, definitions.laneSets[laneSet], 1)

_getUserTasks(processDefinition) ==
  LET IsUserTask(n) == n.type = "userTask"
      laneSet == IF Len(processDefinition.laneSets) = 0 THEN Undefined
                 ELSE processDefinition.laneSets[1]
  IN FilterSeq(processDefinition.flowNodes, IsUserTask)
     \o _getUserTasksFromLaneRecursively(processDefinition, laneSet)

\* AdapterV1 _getUserTasksForProcessInstance: the user tasks of the model for which
\* the instance has a suspended flow-node instance.
_getUserTasksForProcessInstanceV1(processInstance) ==
  LET Suspended(userTask) ==
        \E n \in Range(AllNodeInstances) :
          n.process = processInstance.id /\ n.state = "wait" /\ n.key = userTask.key
      NodeOf(userTask) ==
        CHOOSE t \in DOMAIN nodeInstances :
          /\ nodeInstances[t].process = processInstance.id
          /\ nodeInstances[t].state = "wait"
          /\ nodeInstances[t].key = userTask.key
      Entities(suspended) ==
        [i \in 1..Len(suspended) |->
           UserTaskEntity(suspended[i].key, suspended[i].key, processInstance.id,
                          suspended[i].formFields, NodeOf(suspended[i]))]
  IN Entities(FilterSeq(_getUserTasks(definitions.processDefs[processInstance.processDefKey]),
                        Suspended))

\* The lane check of the task filter: the flow node maps to a lane and that lane
\* is accessible.
identityCanAccessUserTask(processDefinitions, accessibleLaneIds, elementKey) ==
  LET InAccessibleLane(laneId) == laneId # Undefined /\ laneId \in Range(accessibleLaneIds)
  IN InAccessibleLane(_getLaneIdForElement(processDefinitions, elementKey))

\* One entry per suspended user task of the instance, as the copy's query returns it.
UserTaskEntitiesOfInstance(variant, processInstance) ==
  IF variant = "AdapterV1"
  THEN _getUserTasksForProcessInstanceV1(processInstance)
  ELSE LET Entities(entities) ==
             [i \in 1..Len(entities) |->
                UserTaskEntity(entities[i].key, entities[i].id, entities[i].process,
                               FlowNodeOf(processInstance.processDefKey,
                                          entities[i].key).formFields,
                               entities[i].id)]
       IN Entities(_getUserTasksForProcessInstance(processInstance.id))

\* AdapterV2 filters by lane; AdapterV1 returns the tasks before the lane check
\* ("TODO: complete lane check").
_getAccessibleUserTasksForProcessInstance(variant, identity, processInstance) ==
  LET Filtered(accessibleLaneIds) ==
        IF Len(accessibleLaneIds) = 0
        THEN \* AdapterV1 builds the message from processInstance.processDef.key, and its
             \* instances carry processDefinition, not processDef
             IF variant = "AdapterV1" THEN Err("TypeError") ELSE Err("Forbidden")
        ELSE IF variant = "AdapterV1"
        THEN Ok(UserTaskEntitiesOfInstance(variant, processInstance))
        ELSE LET processDefinitions == definitions.processDefs[processInstance.processDefKey]
                 Accessible(userTask) ==
                   identityCanAccessUserTask(processDefinitions, accessibleLaneIds,
                                             userTask.key)
             IN Ok(FilterSeq(UserTaskEntitiesOfInstance(variant, processInstance), Accessible))
  IN Then(_getIdsOfLanesThatCanBeAccessed(variant, identity, processInstance.processDefKey),
          Filtered)

\* The loop of _getUserTasksForCorrelation: Forbidden of one instance is swallowed,
\* every other error aborts.
RECURSIVE UserTasksOfInstancesFrom(_, _, _, _)

\* The loop without its try/catch: Forbidden of one instance aborts as well.
UserTasksOfInstancesFrom_AbortOnForbidden(variant, identity, processInstances, i) ==
  IF i > Len(processInstances) THEN Ok(<< >>)
  ELSE LET Combined(forInstance, rest) ==
             IF forInstance.err # "none" THEN forInstance
             ELSE IF rest.err # "none" THEN rest
             ELSE Ok(forInstance.val \o rest.val)
       IN Combined(_getAccessibleUserTasksForProcessInstance(variant, identity,
                                                             processInstances[i]),
                   UserTasksOfInstancesFrom(variant, identity, processInstances, i + 1))

UserTasksOfInstancesFrom(variant, identity, processInstances, i) ==
  IF i > Len(processInstances) THEN Ok(<< >>)
  ELSE LET Combined(forInstance, rest) ==
             IF forInstance.err \notin {"none", "Forbidden"} THEN forInstance
             ELSE IF rest.err # "none" THEN rest
             ELSE Ok(forInstance.val \o rest.val)
       IN Combined(_getAccessibleUserTasksForProcessInstance(variant, identity,
                                                             processInstances[i]),
                   UserTasksOfInstancesFrom(variant, identity, processInstances, i + 1))

_getUserTasksForCorrelation(variant, identity, correlationId) ==
  LET OfInstances(processInstances) ==
        UserTasksOfInstancesFrom(variant, identity, processInstances, 1)
  IN Then(_getProcessInstancesForCorrelation(variant, correlationId), OfInstances)

\* _getUserTaskConfigFromUserTaskData: "ok", or the error it throws.
_getUserTaskConfigFromUserTaskData(formFields) ==
  LET userTaskHasNoFormFields ==
        \/ formFields = "extensionsUndefined"
        \/ formFields = "extensionsNull"
        \/ formFields = "formFieldsUndefined"
        \/ formFields = "formFieldsEmpty"
  IN IF userTaskHasNoFormFields THEN "UnprocessableEntity" ELSE "ok"

\* AdapterV2 needs form fields for every task (UnprocessableEntity otherwise);
\* AdapterV1 has that conversion commented out.
_userTaskEntitiesToUserTaskList(variant, userTasks) ==
  IF variant = "AdapterV2"
     /\ \E i \in 1..Len(userTasks) :
          _getUserTaskConfigFromUserTaskData(userTasks[i].formFields) # "ok"
  THEN Err("UnprocessableEntity")
  ELSE Ok([i \in 1..Len(userTasks) |->
             Task(userTasks[i].key, userTasks[i].id, userTasks[i].process, userTasks[i].node)])

\* Service: suspended flow-node instances of a correlation / of a process model.
querySuspendedByCorrelation(correlationId) ==
  LET Suspended(n) == n.state = "wait" /\ processes[n.process].correlationId = correlationId
  IN FilterSeq(AllNodeInstances, Suspended)

querySuspendedByProcessModel(processModelId) ==
  LET Suspended(n) == n.state = "wait" /\ processes[n.process].processDefKey = processModelId
  IN FilterSeq(AllNodeInstances, Suspended)

\* Service: a suspended user task becomes a task whose id and key are both the
\* flow-node id.
_convertToConsumerApiUserTask(flowNodeInstance) ==
  Task(flowNodeInstance.key, flowNodeInstance.key, flowNodeInstance.process,
       flowNodeInstance.id)

_convertSuspendedFlowNodesToUserTaskList(suspendedFlowNodes) ==
  LET IsUserTask(n) == n.type = "userTask"
      Converted(userTasks) ==
        [i \in 1..Len(userTasks) |-> _convertToConsumerApiUserTask(userTasks[i])]
  IN Converted(FilterSeq(suspendedFlowNodes, IsUserTask))

(***************************************************************************)
(* Read operations of the public contract                                  *)
(***************************************************************************)
\* AdapterV1 computes userTasksForProcessModel and does not use it: every task
\* of the correlation is mapped, under the first instance of the requested model.
UserTaskListV1(userTasks, processModelKey, correlationId) ==
  LET OfModel(p) == p.correlationId = correlationId /\ p.processDefKey = processModelKey
      Mapped(instancesOfModel) ==
        IF Len(instancesOfModel) = 0 THEN Err("Error")
        ELSE Ok([i \in 1..Len(userTasks) |->
                   Task(userTasks[i].key, userTasks[i].key, instancesOfModel[1].id,
                        userTasks[i].node)])
  IN Mapped(FilterSeq(AllProcesses, OfModel))

getUserTasksForProcessModelInCorrelation(variant, identity, processModelKey, correlationId) ==
  IF variant = "Service"
  THEN LET OfModel(n) == processes[n.process].processDefKey = processModelKey
       IN Ok(_convertSuspendedFlowNodesToUserTaskList(
               FilterSeq(querySuspendedByCorrelation(correlationId), OfModel)))
  ELSE
  LET OfModel(userTask) == processes[userTask.process].processDefKey = processModelKey
      Listed(userTasks) ==
        IF variant = "AdapterV1"
        THEN UserTaskListV1(userTasks, processModelKey, correlationId)
        ELSE _userTaskEntitiesToUserTaskList(variant, FilterSeq(userTasks, OfModel))
      WithLanes(accessibleLaneIds) ==
        IF Len(accessibleLaneIds) = 0 THEN Err("Forbidden")
        ELSE Then(_getUserTasksForCorrelation(variant, identity, correlationId), Listed)
      WithBelongs(belongs) ==
        IF ~belongs[1] THEN Err("NotFound")
        ELSE Then(_getIdsOfLanesThatCanBeAccessed(variant, identity, processModelKey),
                  WithLanes)
  IN Then(_processModelBelongsToCorrelation(variant, correlationId, processModelKey),
          WithBelongs)

RECURSIVE AccessibleLaneIdsOfModelsFrom(_, _, _, _)
AccessibleLaneIdsOfModelsFrom(variant, identity, processModelKeys, i) ==
  IF i > Len(processModelKeys) THEN Ok(<< >>)
  ELSE LET Combined(inThisProcess, rest) ==
             IF inThisProcess.err # "none" THEN inThisProcess
             ELSE IF rest.err # "none" THEN rest
             ELSE Ok(inThisProcess.val \o rest.val)
       IN Combined(_getIdsOfLanesThatCanBeAccessed(variant, identity, processModelKeys[i]),
                   AccessibleLaneIdsOfModelsFrom(variant, identity, processModelKeys, i + 1))

getUserTasksForCorrelation(variant, identity, correlationId) ==
  IF variant = "Service"
  THEN Ok(_convertSuspendedFlowNodesToUserTaskList(querySuspendedByCorrelation(correlationId)))
  ELSE
  LET Listed(userTasks) == _userTaskEntitiesToUserTaskList(variant, userTasks)
      WithLanes(accessibleLaneIds) ==
        IF Len(accessibleLaneIds) = 0 THEN Err("Forbidden")
        ELSE Then(_getUserTasksForCorrelation(variant, identity, correlationId), Listed)
      WithModels(processModelsInCorrelation) ==
        Then(AccessibleLaneIdsOfModelsFrom(variant, identity, processModelsInCorrelation, 1),
             WithLanes)
  IN Then(_getProcessModelKeysForCorrelation(variant, correlationId), WithModels)

\* A task filter without the Forbidden check on an empty lane list.
_getAccessibleUserTasksForProcessModel_NoForbidden(variant, identity, processModelKey) ==
  LET Entities(entities) ==
        [i \in 1..Len(entities) |->
           UserTaskEntity(entities[i].key, entities[i].id, entities[i].process,
                          FlowNodeOf(processModelKey, entities[i].key).formFields,
                          entities[i].id)]
      Filtered(accessibleLaneIds) ==
        LET processDefinitions == definitions.processDefs[processModelKey]
            Accessible(userTask) ==
              identityCanAccessUserTask(processDefinitions, accessibleLaneIds, userTask.key)
        IN Ok(FilterSeq(Entities(_getUserTasksForProcessModel(processModelKey)), Accessible))
  IN Then(_getIdsOfLanesThatCanBeAccessed(variant, identity, processModelKey), Filtered)

\* AdapterV2 filters by lane; AdapterV1 returns before the lane check.
_getAccessibleUserTasksForProcessModel(variant, identity, processModelKey) ==
  LET Entities(entities) ==
        [i \in 1..Len(entities) |->
           UserTaskEntity(entities[i].key, entities[i].id, entities[i].process,
                          FlowNodeOf(processModelKey, entities[i].key).formFields,
                          entities[i].id)]
      Filtered(accessibleLaneIds) ==
        IF Len(accessibleLaneIds) = 0 THEN Err("Forbidden")
        ELSE IF variant = "AdapterV1"
        THEN Ok(Entities(_getUserTasksForProcessModel(processModelKey)))
        ELSE LET processDefinitions == definitions.processDefs[processModelKey]
                 Accessible(userTask) ==
                   identityCanAccessUserTask(processDefinitions, accessibleLaneIds,
                                             userTask.key)
             IN Ok(FilterSeq(Entities(_getUserTasksForProcessModel(processModelKey)),
                             Accessible))
  IN Then(_getIdsOfLanesThatCanBeAccessed(variant, identity, processModelKey), Filtered)

getUserTasksForProcessModel(variant, identity, processModelKey) ==
  IF variant = "Service"
  THEN Ok(_convertSuspendedFlowNodesToUserTaskList(querySuspendedByProcessModel(processModelKey)))
  ELSE LET Listed(userTasks) ==
             IF variant = "AdapterV1"
             THEN Ok([i \in 1..Len(userTasks) |->
                        Task(userTasks[i].key, userTasks[i].id, userTasks[i].process,
                             userTasks[i].node)])
             ELSE _userTaskEntitiesToUserTaskList(variant, userTasks)
       IN Then(_getAccessibleUserTasksForProcessModel(variant, identity, processModelKey),
               Listed)

\* Start / end events of a model the identity may see; Forbidden when no lane is
\* accessible and when no event is left.
_filterAccessibleEvents(variant, identity, processModelKey, events) ==
  LET NotEmpty(accessibleEventEntities) ==
        IF Len(accessibleEventEntities) = 0 THEN Err("Forbidden")
        ELSE Ok(accessibleEventEntities)
      Filtered(accessibleLaneIds) ==
        IF Len(accessibleLaneIds) = 0 THEN Err("Forbidden")
        ELSE LET processDefinitions == definitions.processDefs[processModelKey]
                 Accessible(event) ==
                   identityCanAccessUserTask(processDefinitions, accessibleLaneIds, event.key)
             IN NotEmpty(FilterSeq(events, Accessible))
  IN Then(_getIdsOfLanesThatCanBeAccessed(variant, identity, processModelKey), Filtered)

_getAccessibleStartEvents(variant, identity, processModelKey) ==
  _filterAccessibleEvents(variant, identity, processModelKey,
                          _getNodesByTypeForProcessModel(processModelKey, "startEvent"))

ConsumerApiEvent(key) == Task(key, key, Undefined, Undefined)

getProcessModelByKey(variant, identity, processModelKey) ==
  LET EventsOf(events) == Ok([i \in 1..Len(events) |-> ConsumerApiEvent(events[i].key)])
      WithModel(processDef) ==
        IF variant = "Service"
        THEN EventsOf(_getNodesByTypeForProcessModel(processModelKey, "startEvent")
                      \o _getNodesByTypeForProcessModel(processModelKey, "endEvent"))
        ELSE LET WithEvents(accessible) ==
                   IF Len(accessible) = 0 THEN Err("Forbidden")
                   ELSE IF ~processDef[1].isExecutable THEN Ok(<< >>)
                   ELSE EventsOf(accessible)
             IN Then(_getAccessibleStartEvents(variant, identity, processModelKey), WithEvents)
  IN Then(_getProcessModelByKey(processModelKey), WithModel)

TypeOK ==
  /\ impl \in Implementations
  /\ noise \in 0..MaxNoise
  /\ \A c \in CallIds : calls[c].pc \in {"idle", "resolving", "pending", "resolved", "rejected"}

(***************************************************************************)
(* Event aggregator                                                        *)
(***************************************************************************)
Channel(node, suffix) == [node |-> node, suffix |-> suffix]
Event(action, data) == [action |-> action, data |-> data]

ProceedEvent == Event("proceed", Undefined)
EndedEvent == Event("changeState", "end")
FinishedEvent == Event("finished", Undefined)
\* Events of a node channel that do not say that the node has ended.
OtherEvents == {Event("changeState", "progress"), Event("event", "end")}

\* The channel finishUserTask subscribes to and the one it publishes on.
CompletionChannel(variant, userTask) ==
  IF variant = "Service" THEN Channel(userTask.id, "finished") ELSE Channel(userTask.id, "")

ProceedChannel(variant, userTask) ==
  IF variant = "Service" THEN Channel(userTask.id, "finish") ELSE Channel(userTask.id, "")

\* The id under which the engine of each implementation addresses a flow-node
\* instance on the bus: the entity id (AdapterV2) or the flow-node id.
EngineNodeId(variant, n) == IF variant = "AdapterV2" THEN n.id ELSE n.key

EngineProceedChannel(variant, n) ==
  Channel(EngineNodeId(variant, n), IF variant = "Service" THEN "finish" ELSE "")

EngineCompletionChannel(variant, n) ==
  Channel(EngineNodeId(variant, n), IF variant = "Service" THEN "finished" ELSE "")

EngineCompletionEvent(variant) == IF variant = "Service" THEN FinishedEvent ELSE EndedEvent

Delivery(to, task, channel, event, about, n) ==
  [to |-> to, task |-> task, channel |-> channel, event |-> event, about |-> about, n |-> n]

\* subscribe(channel, handler) of request c.
Subscribe(subs, c, channel) == subs \cup {[owner |-> c, channel |-> channel]}

\* publish(channel, event): the event is handed to every handler registered on
\* the channel at that moment: the requests' handlers and, for a proceed message,
\* the engine's handler of each waiting user task addressed by the channel.
\* about names the flow-node instance an engine event reports on.
Publish(subs, fl, variant, channel, event, about, n) ==
  fl \cup { Delivery(s.owner, Undefined, channel, event, about, n) :
              s \in {x \in subs : x.channel = channel} }
     \cup { Delivery("engine", t, channel, event, about, n) :
              t \in {x \in DOMAIN nodeInstances :
                       /\ event = ProceedEvent
                       /\ nodeInstances[x].type = "userTask"
                       /\ nodeInstances[x].state = "wait"
                       /\ EngineProceedChannel(variant, nodeInstances[x]) = channel} }

(***************************************************************************)
(* finishUserTask                                                          *)
(***************************************************************************)
\* The shapes of userTaskResult the validation distinguishes.
UserTaskResults ==
  {"undefinedResult", "undefinedFormFields", "nullFormFields", "primitiveFormFields",
   "arrayFormFields", "emptyObject", "validObject"}

UserTaskIds == {"UT1", "UT3", "T1", "UTx"}

\* _getUserTaskResultFromUserTaskConfig: "ok", or the error it throws.
\* typeof null is 'object' and null is no array, so null reaches Object.keys(null).
_getUserTaskResultFromUserTaskConfig(finishedTask) ==
  LET userTaskIsNotAnObject ==
        \/ finishedTask = "undefinedResult"
        \/ finishedTask = "undefinedFormFields"
        \/ finishedTask = "primitiveFormFields"
        \/ finishedTask = "arrayFormFields"
  IN IF userTaskIsNotAnObject THEN "BadRequest"
     ELSE IF finishedTask = "nullFormFields" THEN "TypeError"
     ELSE IF finishedTask = "emptyObject" THEN "BadRequest"
     ELSE "ok"

\* The attribute userTasks.find() compares with userTaskId: task.key in both
\* adapter copies and in part_000, task.id in ioc_module.js (key = id there).
LookupAttribute(variant, task) == task.key

\* A lookup that takes the first listed task whatever id was asked for.
FindUserTask_First(variant, userTasks, userTaskId) ==
  IF Len(userTasks) = 0 THEN << >> ELSE <<userTasks[1]>>

\* userTasks.find(...): the first matching task, as a sequence of length 0 or 1.
FindUserTask(variant, userTasks, userTaskId) ==
  LET Matches(task) == LookupAttribute(variant, task) = userTaskId
      found == FilterSeq(userTasks, Matches)
  IN IF Len(found) = 0 THEN << >> ELSE <<found[1]>>

\* A rendezvous that publishes the proceed message before it subscribes.
RendezvousSteps_PublishFirst(variant, c, userTask) ==
  << [op |-> "publish", call |-> c, channel |-> ProceedChannel(variant, userTask)],
     [op |-> "subscribe", call |-> c, channel |-> CompletionChannel(variant, userTask)] >>

\* The executor of the returned promise: subscribe, then publish. Yields the
\* bus after both calls and the log of the two calls.
RendezvousSteps(variant, c, userTask) ==
  << [op |-> "subscribe", call |-> c, channel |-> CompletionChannel(variant, userTask)],
     [op |-> "publish", call |-> c, channel |-> ProceedChannel(variant, userTask)] >>

RECURSIVE ApplySteps(_, _, _, _)
ApplySteps(bus, variant, steps, i) ==
  IF i > Len(steps) THEN bus
  ELSE LET step == steps[i]
           next == IF step.op = "subscribe"
                   THEN [bus EXCEPT !.subs = Subscribe(bus.subs, step.call, step.channel)]
                   ELSE [bus EXCEPT !.fl = Publish(bus.subs, bus.fl, variant, step.channel,
                                                   ProceedEvent, Undefined, 0)]
       IN ApplySteps(next, variant, steps, i + 1)

\* A handler that resolves and leaves its subscription registered.
HandleEvent_NoDispose(variant, event) ==
  IF variant = "AdapterV2" /\ (event.action # "changeState" \/ event.data # "end")
  THEN [dispose |-> FALSE, settle |-> "none"]
  ELSE [dispose |-> FALSE, settle |-> "resolved"]

\* A handler without the ended-event filter.
HandleEvent_ResolveOnAny(variant, event) ==
  [dispose |-> TRUE, settle |-> "resolved"]

\* What the completion handler of a request does with an event:
\*   AdapterV1  disposes and resolves on every event
\*   AdapterV2  returns on every event but {action: 'changeState', data: 'end'}
\*   Service    subscribeOnce: the first event removes the handler and resolves
HandleEvent(variant, event) ==
  IF variant = "AdapterV2"
  THEN LET eventIsNotUserTaskEndedEvent == event.action # "changeState" \/ event.data # "end"
       IN IF eventIsNotUserTaskEndedEvent
          THEN [dispose |-> FALSE, settle |-> "none"]
          ELSE [dispose |-> TRUE, settle |-> "resolved"]
  ELSE [dispose |-> TRUE, settle |-> "resolved"]

\* What a request's handler has been run with: nothing yet.
NoEventYet == [event |-> Event("none", Undefined), about |-> Undefined, handled |-> 0]

IdleCall ==
  [pc |-> "idle", stage |-> "none", error |-> "none",
   tasks |-> << >>,
   userTaskId |-> Undefined, result |-> Undefined, task |-> Undefined,
   instance |-> Undefined, channel |-> Undefined]

\* finishUserTask up to the await of getUserTasksForProcessModelInCorrelation.
FinishUserTaskBegin(c) ==
  /\ calls[c].pc = "idle"
  /\ \E identity \in Identities, processModelKey \in ProcessModelKeys,
        correlationId \in CorrelationIds :
       LET Awaited(userTasks) ==
             IF userTasks.err # "none"
             THEN [IdleCall EXCEPT !.pc = "rejected", !.stage = "list",
                                   !.error = userTasks.err]
             ELSE [IdleCall EXCEPT !.pc = "resolving", !.stage = "list",
                                   !.tasks = userTasks.val]
       IN calls' = [calls EXCEPT ![c] =
            Awaited(getUserTasksForProcessModelInCorrelation(
                      impl, identity, processModelKey, correlationId))]
  /\ lastRead' = [op |-> "none"]
  /\ UNCHANGED <<impl, definitions, processes, nodeInstances, subscriptions, inflight,
                 busLog, disposals, lastEvent, noise>>

\* finishUserTask with the validation ahead of the lookup.
FinishUserTaskContinue_ValidateFirst(c) ==
  /\ calls[c].pc = "resolving"
  /\ \E userTaskId \in UserTaskIds, userTaskResult \in UserTaskResults :
       LET found == FindUserTask(impl, calls[c].tasks, userTaskId)
           validation == _getUserTaskResultFromUserTaskConfig(userTaskResult)
           settled == [IdleCall EXCEPT !.userTaskId = userTaskId]
       IN IF validation # "ok"
          THEN /\ calls' = [calls EXCEPT ![c] =
                     [settled EXCEPT !.pc = "rejected", !.stage = "validate",
                                     !.result = userTaskResult, !.error = validation]]
               /\ UNCHANGED <<subscriptions, inflight, busLog>>
          ELSE IF Len(found) = 0
          THEN /\ calls' = [calls EXCEPT ![c] =
                     [settled EXCEPT !.pc = "rejected", !.stage = "find", !.error = "NotFound"]]
               /\ UNCHANGED <<subscriptions, inflight, busLog>>
          ELSE LET userTask == found[1]
                   steps == RendezvousSteps(impl, c, userTask)
                   bus == ApplySteps([subs |-> subscriptions, fl |-> inflight], impl, steps, 1)
               IN /\ calls' = [calls EXCEPT ![c] =
                        [settled EXCEPT !.pc = "pending", !.stage = "rendezvous",
                                        !.result = userTaskResult,
                                        !.task = userTask.id,
                                        !.instance = userTask.ofInstance,
                                        !.channel = CompletionChannel(impl, userTask)]]
                  /\ subscriptions' = bus.subs
                  /\ inflight' = bus.fl
                  /\ busLog' = [busLog EXCEPT ![c] = @ \o steps]
  /\ UNCHANGED <<impl, definitions, processes, nodeInstances, disposals, lastEvent,
                 lastRead, noise>>

\* finishUserTask after the await: find the task, validate the result, then
\* subscribe and publish inside the promise executor.
FinishUserTaskContinue(c) ==
  /\ calls[c].pc = "resolving"
  /\ \E userTaskId \in UserTaskIds, userTaskResult \in UserTaskResults :
       LET found == FindUserTask(impl, calls[c].tasks, userTaskId)
           validation == _getUserTaskResultFromUserTaskConfig(userTaskResult)
           settled == [IdleCall EXCEPT !.userTaskId = userTaskId]
       IN IF Len(found) = 0
          THEN /\ calls' = [calls EXCEPT ![c] =
                     [settled EXCEPT !.pc = "rejected", !.stage = "find", !.error = "NotFound"]]
               /\ UNCHANGED <<subscriptions, inflight, busLog>>
          ELSE IF validation # "ok"
          THEN /\ calls' = [calls EXCEPT ![c] =
                     [settled EXCEPT !.pc = "rejected", !.stage = "validate",
                                     !.result = userTaskResult, !.error = validation]]
               /\ UNCHANGED <<subscriptions, inflight, busLog>>
          ELSE LET userTask == found[1]
                   steps == RendezvousSteps(impl, c, userTask)
                   bus == ApplySteps([subs |-> subscriptions, fl |-> inflight], impl, steps, 1)
               IN /\ calls' = [calls EXCEPT ![c] =
                        [settled EXCEPT !.pc = "pending", !.stage = "rendezvous",
                                        !.result = userTaskResult,
                                        !.task = userTask.id,
                                        !.instance = userTask.ofInstance,
                                        !.channel = CompletionChannel(impl, userTask)]]
                  /\ subscriptions' = bus.subs
                  /\ inflight' = bus.fl
                  /\ busLog' = [busLog EXCEPT ![c] = @ \o steps]
  /\ UNCHANGED <<impl, definitions, processes, nodeInstances, disposals, lastEvent,
                 lastRead, noise>>

\* The event aggregator runs the handler of request c with an event it was handed.
\* A handler that has been disposed in the meantime is not run.
DeliverToCall(c) ==
  \E d \in inflight :
    /\ d.to = c
    /\ inflight' = inflight \ {d}
    /\ IF [owner |-> c, channel |-> d.channel] \in subscriptions
       THEN LET outcome == HandleEvent(impl, d.event)
            IN /\ subscriptions' = IF outcome.dispose
                                   THEN subscriptions \ {[owner |-> c, channel |-> d.channel]}
                                   ELSE subscriptions
               /\ disposals' = [disposals EXCEPT ![c] = @ + (IF outcome.dispose THEN 1 ELSE 0)]
               /\ lastEvent' = [lastEvent EXCEPT ![c] =
                                  [event |-> d.event, about |-> d.about,
                                   handled |-> @.handled + 1]]
               /\ calls' = [calls EXCEPT ![c].pc =
                              IF outcome.settle # "none" /\ @ = "pending"
                              THEN outcome.settle ELSE @]
       ELSE UNCHANGED <<subscriptions, disposals, lastEvent, calls>>
    /\ UNCHANGED <<impl, definitions, processes, nodeInstances, busLog, lastRead, noise>>

\* The engine receives a proceed message for a waiting user task: the task ends
\* and the engine announces it on the task's completion channel.
EngineFinishesUserTask ==
  \E d \in inflight :
    /\ d.to = "engine"
    /\ IF nodeInstances[d.task].state = "wait"
       THEN /\ nodeInstances' = [nodeInstances EXCEPT ![d.task].state = "end"]
            /\ inflight' = Publish(subscriptions, inflight \ {d}, impl,
                                   EngineCompletionChannel(impl, nodeInstances[d.task]),
                                   EngineCompletionEvent(impl), d.task, 0)
       ELSE /\ inflight' = inflight \ {d}
            /\ UNCHANGED nodeInstances
    /\ UNCHANGED <<impl, definitions, processes, subscriptions, busLog, calls, disposals,
                   lastEvent, lastRead, noise>>

\* The engine publishes an event that is no completion on the channel of a
\* waiting user task (a state change other than 'end', an event notification).
\* The '/finished' channel of Service carries completions only. At most MaxNoise
\* such events are published, one at a time.
EnginePublishesOtherEvent ==
  /\ noise < MaxNoise
  /\ impl \in Adapters
  /\ \A d \in inflight : d.n = 0
  /\ \E t \in DOMAIN nodeInstances, event \in OtherEvents :
       /\ nodeInstances[t].type = "userTask"
       /\ nodeInstances[t].state = "wait"
       /\ inflight' = Publish(subscriptions, inflight, impl,
                              EngineCompletionChannel(impl, nodeInstances[t]),
                              event, t, noise + 1)
       /\ inflight' # inflight
  /\ noise' = noise + 1
  /\ UNCHANGED <<impl, definitions, processes, nodeInstances, subscriptions, busLog, calls,
                 disposals, lastEvent, lastRead>>

(***************************************************************************)
(* Read requests                                                           *)
(***************************************************************************)
ReadOps ==
  {"getUserTasksForProcessModel", "getUserTasksForCorrelation",
   "getUserTasksForProcessModelInCorrelation", "getProcessModelByKey"}

ReadOutcome(variant, op, identity, processModelKey, correlationId) ==
  CASE op = "getUserTasksForProcessModel" ->
         getUserTasksForProcessModel(variant, identity, processModelKey)
    [] op = "getUserTasksForCorrelation" ->
         getUserTasksForCorrelation(variant, identity, correlationId)
    [] op = "getUserTasksForProcessModelInCorrelation" ->
         getUserTasksForProcessModelInCorrelation(variant, identity, processModelKey,
                                                  correlationId)
    [] op = "getProcessModelByKey" ->
         getProcessModelByKey(variant, identity, processModelKey)

\* A read that also publishes a proceed message for the tasks it lists.
Read_Publishing ==
  /\ \A c \in CallIds : calls[c].pc = "idle"
  /\ \E op \in ReadOps, identity \in Identities, processModelKey \in ProcessModelKeys,
        correlationId \in CorrelationIds :
       LET Answered(outcome) ==
             /\ lastRead' = [op |-> op, identity |-> identity,
                             processModelKey |-> processModelKey,
                             correlationId |-> correlationId,
                             err |-> outcome.err, val |-> outcome.val]
             /\ inflight' = inflight \cup
                  UNION { Publish(subscriptions, {}, impl,
                                  ProceedChannel(impl, outcome.val[i]), ProceedEvent,
                                  Undefined, 0) : i \in 1..Len(outcome.val) }
       IN Answered(ReadOutcome(impl, op, identity, processModelKey, correlationId))
  /\ UNCHANGED <<impl, definitions, processes, nodeInstances, subscriptions,
                 busLog, calls, disposals, lastEvent, noise>>

\* A read request runs to its end (no bus call, no store update).
Read ==
  /\ \A c \in CallIds : calls[c].pc = "idle"
  /\ \E op \in ReadOps, identity \in Identities, processModelKey \in ProcessModelKeys,
        correlationId \in CorrelationIds :
       LET Answered(outcome) ==
             [op |-> op, identity |-> identity,
              processModelKey |->
                IF op = "getUserTasksForCorrelation" THEN Undefined ELSE processModelKey,
              correlationId |->
                IF op \in {"getUserTasksForProcessModel", "getProcessModelByKey"}
                THEN Undefined ELSE correlationId,
              err |-> outcome.err, val |-> outcome.val]
       IN lastRead' = Answered(ReadOutcome(impl, op, identity, processModelKey,
                                           correlationId))
  /\ UNCHANGED <<impl, definitions, processes, nodeInstances, subscriptions, inflight,
                 busLog, calls, disposals, lastEvent, noise>>

Init ==
  /\ impl \in Implementations
  /\ definitions = DefinitionStore
  /\ processes = ProcessTable
  /\ nodeInstances = NodeInstanceTable
  /\ subscriptions = {}
  /\ inflight = {}
  /\ busLog = [c \in CallIds |-> << >>]
  /\ calls = [c \in CallIds |-> IdleCall]
  /\ disposals = [c \in CallIds |-> 0]
  /\ lastEvent = [c \in CallIds |-> NoEventYet]
  /\ lastRead = [op |-> "none"]
  /\ noise = 0

Next ==
  \/ \E c \in CallIds : FinishUserTaskBegin(c)
  \/ \E c \in CallIds : FinishUserTaskContinue(c)
  \/ \E c \in CallIds : DeliverToCall(c)
  \/ EngineFinishesUserTask
  \/ EnginePublishesOtherEvent
  \/ Read

Spec == Init /\ [][Next]_vars

(***************************************************************************)
(* The resolvers on arbitrary engine stores                                *)
(*                                                                         *)
(* The adapter reads whatever the datastore holds.  ResolverSpec (lane     *)
(* trees) and CorrelationSpec (process stores) start from any store of a   *)
(* bounded family and apply the private resolvers of the adapter copies    *)
(* to it; the store itself is never written.                               *)
(*                                                                         *)
(* Lane trees: the lanes LA, LB, LC hang below the root lane sets LS0 and  *)
(* LS0b of process model PM1 or below each other (every forest), listed    *)
(* in one of two orders, with any names and any references to node "N".    *)
(* Process model PM2 calls PM1 from two call activities; the instances of  *)
(* correlation corr1 are one of PM2 and the two of PM1 it called.          *)
(*                                                                         *)
(* Process stores: the instances PI1..PI4 with any caller links through    *)
(* the call-activity instances N_CA1..N_CA3 (isSubProcess is set for the   *)
(* instances that have a caller), on the process models of DefinitionStore.*)
(***************************************************************************)
TreeLanes == <<"LA", "LB", "LC">>
RootLaneSets == <<"LS0", "LS0b">>
ChildLaneSetOf == [LA |-> "LSA", LB |-> "LSB", LC |-> "LSC"]
LaneOrders == {<<"LA", "LB", "LC">>, <<"LC", "LB", "LA">>}

\* The identities of the resolver requests; one holds a claim named "".
ResolverIdentities == {{}, {"cA"}, {"cA", "cB"}, {"cB", "", Undefined}}

LaneNamings ==
  [LA : {"cA", "cB", "", Undefined}, LB : {"cA", "cB", ""}, LC : {"cA", "cB"}]

\* parent[l] is the lane set owner of lane l: a root lane set or another lane.
LaneParents ==
  LET Up(parent, x) == IF x \in Range(RootLaneSets) THEN x ELSE parent[x]
      Rooted(parent) ==
        \A l \in Range(TreeLanes) : Up(parent, Up(parent, Up(parent, l))) \in Range(RootLaneSets)
  IN {parent \in [LA : {"LS0", "LB", "LC"}, LB : {"LS0", "LA", "LC"},
                  LC : {"LS0", "LS0b", "LA", "LB"}] : Rooted(parent)}

LaneTree(parent, order, naming, referencing) ==
  LET LanesOf(owner) ==
        LET Below(l) == parent[l] = owner
        IN FilterSeq(order, Below)
      ChildLaneSet(l) == IF Len(LanesOf(l)) = 0 THEN Undefined ELSE ChildLaneSetOf[l]
      NonEmpty(laneSet) == Len(LanesOf(laneSet)) > 0
  IN [processDefs |->
        [PM1 |-> [key |-> "PM1", isExecutable |-> TRUE,
                  laneSets |-> FilterSeq(RootLaneSets, NonEmpty),
                  flowNodes |-> << FlowNode("N", "userTask", "formFields", Undefined) >>],
         PM2 |-> [key |-> "PM2", isExecutable |-> TRUE, laneSets |-> << >>,
                  flowNodes |-> << FlowNode("CA1", "callActivity", "extensionsUndefined", "PM1"),
                                   FlowNode("CA2", "callActivity", "extensionsUndefined", "PM1") >>],
         PM3 |-> ProcessDefTable.PM3],
      laneSets |->
        [LS0 |-> LanesOf("LS0"), LS0b |-> LanesOf("LS0b"),
         LSA |-> LanesOf("LA"), LSB |-> LanesOf("LB"), LSC |-> LanesOf("LC")],
      lanes |->
        [l \in Range(TreeLanes) |->
           [id |-> l, name |-> naming[l], childLaneSet |-> ChildLaneSet(l),
            flowNodeRef |-> IF l \in referencing THEN {"N"} ELSE {}]]]

LaneTrees ==
  {LaneTree(parent, order, naming, referencing) :
     parent \in LaneParents, order \in LaneOrders, naming \in LaneNamings,
     referencing \in SUBSET Range(TreeLanes)}

Process(id, processDefKey, correlationId, callerId) ==
  [id |-> id, processDefKey |-> processDefKey, correlationId |-> correlationId,
   callerId |-> callerId, isSubProcess |-> callerId # Undefined]

\* The instances the lane trees are asked about.
CallingProcesses ==
  [ PI1 |-> Process("PI1", "PM2", "corr1", Undefined),
    PI2 |-> Process("PI2", "PM1", "corr1", "N_CA1"),
    PI3 |-> Process("PI3", "PM1", "corr1", "N_CA2"),
    PI4 |-> Process("PI4", "PM1", "corr2", Undefined) ]

CallingNodeInstances ==
  [ N_CA1 |-> NodeInstance("N_CA1", "CA1", "callActivity", "PI1", "wait"),
    N_CA2 |-> NodeInstance("N_CA2", "CA2", "callActivity", "PI1", "wait"),
    T3    |-> NodeInstance("T3", "N", "userTask", "PI2", "wait") ]

CallerLinks ==
  [PI1 : {Undefined, "N_CA3"}, PI2 : {Undefined, "N_CA1", "N_CA2"},
   PI3 : {Undefined, "N_CA1", "N_CA2", "N_CA3"},
   PI4 : {Undefined, "N_CA1", "N_CA2", "N_CA3"}]

CallActivityOwners ==
  [N_CA1 : {"PI1"}, N_CA2 : {"PI1", "PI2"}, N_CA3 : {"PI2", "PI3", "PI4"}]

ProcessForest(callerOf, ownerOf, processDefKey3, correlationId4) ==
  [definitions |-> DefinitionStore,
   processes |->
     [ PI1 |-> Process("PI1", "PM1", "corr1", callerOf.PI1),
       PI2 |-> Process("PI2", "PM2", "corr1", callerOf.PI2),
       PI3 |-> Process("PI3", processDefKey3, "corr1", callerOf.PI3),
       PI4 |-> Process("PI4", "PM3", correlationId4, callerOf.PI4) ],
   nodeInstances |->
     [ N_CA1 |-> NodeInstance("N_CA1", "CA1", "callActivity", ownerOf.N_CA1, "wait"),
       N_CA2 |-> NodeInstance("N_CA2", "CA1", "callActivity", ownerOf.N_CA2, "wait"),
       N_CA3 |-> NodeInstance("N_CA3", "CA1", "callActivity", ownerOf.N_CA3, "wait"),
       T2    |-> NodeInstance("T2", "UT2", "userTask", "PI1", "wait"),
       T3    |-> NodeInstance("T3", "UT3", "userTask", "PI2", "wait"),
       T7    |-> NodeInstance("T7", "UT2", "userTask", "PI3", "wait") ]]

ProcessForests ==
  {ProcessForest(callerOf, ownerOf, processDefKey3, correlationId4) :
     callerOf \in CallerLinks, ownerOf \in CallActivityOwners,
     processDefKey3 \in {"PM1", "PMx"}, correlationId4 \in {"corr1", "corr2"}}

LaneStores ==
  {[definitions |-> tree, processes |-> CallingProcesses,
    nodeInstances |-> CallingNodeInstances] : tree \in LaneTrees}

\* _getIdsOfLanesThatCanBeAccessed of one process model, run to its end.
ResolveAccessibleLanes ==
  /\ lastRead.op = "none"
  /\ \E identity \in ResolverIdentities, processModelKey \in {"PM1", "PM3"} :
       LET Answered(outcome) ==
             [op |-> "_getIdsOfLanesThatCanBeAccessed", identity |-> identity,
              processModelKey |-> processModelKey, correlationId |-> Undefined,
              err |-> outcome.err, val |-> outcome.val]
       IN lastRead' = Answered(_getIdsOfLanesThatCanBeAccessed(impl, identity,
                                                               processModelKey))
  /\ UNCHANGED <<impl, definitions, processes, nodeInstances, subscriptions, inflight,
                 busLog, calls, disposals, lastEvent, noise>>

\* _getLaneIdForElement on the definitions of one process model.
FindLaneForFlowNode ==
  /\ lastRead.op = "none"
  /\ \E processModelKey \in {"PM1", "PM3"}, elementId \in {"N", "Nx"} :
       lastRead' =
         [op |-> "_getLaneIdForElement", identity |-> {},
          processModelKey |-> processModelKey, correlationId |-> Undefined,
          err |-> "none",
          val |-> <<elementId,
                    _getLaneIdForElement(definitions.processDefs[processModelKey],
                                         elementId)>>]
  /\ UNCHANGED <<impl, definitions, processes, nodeInstances, subscriptions, inflight,
                 busLog, calls, disposals, lastEvent, noise>>

\* getUserTasksForCorrelation up to its Forbidden check: the accessible lane
\* ids collected over the process models of the correlation.
ResolveAccessibleLanesOfCorrelation ==
  /\ lastRead.op = "none"
  /\ \E identity \in ResolverIdentities, correlationId \in {"corr1", "corr2"} :
       LET Answered(outcome) ==
             [op |-> "accessibleLaneIds", identity |-> identity,
              processModelKey |-> Undefined, correlationId |-> correlationId,
              err |-> outcome.err, val |-> outcome.val]
           OfModels(processModelsInCorrelation) ==
             AccessibleLaneIdsOfModelsFrom(impl, identity, processModelsInCorrelation, 1)
       IN lastRead' = Answered(Then(_getProcessModelKeysForCorrelation(impl, correlationId),
                                    OfModels))
  /\ UNCHANGED <<impl, definitions, processes, nodeInstances, subscriptions, inflight,
                 busLog, calls, disposals, lastEvent, noise>>

ResolverInit ==
  /\ impl \in Adapters
  /\ \E store \in LaneStores :
       /\ definitions = store.definitions
       /\ processes = store.processes
       /\ nodeInstances = store.nodeInstances
  /\ subscriptions = {}
  /\ inflight = {}
  /\ busLog = [c \in CallIds |-> << >>]
  /\ calls = [c \in CallIds |-> IdleCall]
  /\ disposals = [c \in CallIds |-> 0]
  /\ lastEvent = [c \in CallIds |-> NoEventYet]
  /\ lastRead = [op |-> "none"]
  /\ noise = 0

ResolverNext ==
  \/ ResolveAccessibleLanes
  \/ FindLaneForFlowNode
  \/ ResolveAccessibleLanesOfCorrelation

ResolverSpec == ResolverInit /\ [][ResolverNext]_vars

(***************************************************************************)
(* CorrelationSpec: AdapterV2 resolves the process instances of a          *)
(* correlation on any process store.  The recursion of                     *)
(* _getSubProcessInstances is run one invocation at a time: every          *)
(* invocation awaits the two engine queries of its parent instance.        *)
(***************************************************************************)
EntityIds(entities) == [i \in 1..Len(entities) |-> entities[i].id]

\* The invocation whose call-activity query lacks the clause on the owning
\* process instance.
SubProcessFrame_AnyProcess(parentProcessInstanceId) ==
  LET Frame(procs) == [processes |-> procs, i |-> 1, result |-> procs]
      IsCall(n) == n.type = "callActivity"
  IN Frame(_getCalledProcessesViaCallerIds(EntityIds(FilterSeq(AllNodeInstances, IsCall))))

\* One invocation of _getSubProcessInstances up to its loop: the called
\* processes, the loop position and the result collected so far.
SubProcessFrame(parentProcessInstanceId) ==
  LET Frame(procs) == [processes |-> procs, i |-> 1, result |-> procs]
  IN Frame(_getCalledProcessesViaCallerIds(
             EntityIds(_getCallActivitiesForProcessInstance(parentProcessInstanceId))))

Resolution(correlationId, pc, err, val, main, stack, invocations) ==
  [op |-> "_getProcessInstancesForCorrelation", identity |-> {},
   processModelKey |-> Undefined, correlationId |-> correlationId,
   pc |-> pc, err |-> err, val |-> val, main |-> main, stack |-> stack,
   invocations |-> invocations]

\* _getProcessInstancesForCorrelation up to the first invocation of
\* _getSubProcessInstances.
ResolveProcessInstancesBegin ==
  /\ lastRead.op = "none"
  /\ \E correlationId \in CorrelationIds :
       LET Failed(r) == Resolution(correlationId, "done", r.err, << >>, << >>, << >>, 0)
           WithMain(main) ==
             Resolution(correlationId, "running", "none", << >>, main,
                        <<SubProcessFrame(main[1].id)>>, 1)
           WithMainId(mainId) ==
             LET Looked(r) == IF r.err # "none" THEN Failed(r) ELSE WithMain(r.val)
             IN Looked(_getProcessInstanceById(mainId[1]))
           Started(r) == IF r.err # "none" THEN Failed(r) ELSE WithMainId(r.val)
       IN lastRead' = Started(_getMainProcessInstanceIdFromCorrelation(correlationId))
  /\ UNCHANGED <<impl, definitions, processes, nodeInstances, subscriptions, inflight,
                 busLog, calls, disposals, lastEvent, noise>>

\* The loop of the innermost invocation: it calls _getSubProcessInstances for its
\* next process, or returns its result to the invocation that awaits it.
ResolveProcessInstancesStep ==
  /\ lastRead.op = "_getProcessInstancesForCorrelation"
  /\ lastRead.pc = "running"
  /\ LET stack == lastRead.stack
         depth == Len(stack)
         top == stack[depth]
     IN IF top.i <= Len(top.processes)
        THEN /\ lastRead.invocations < MaxInvocations
             /\ lastRead' =
                  [lastRead EXCEPT !.stack = Append(stack, SubProcessFrame(top.processes[top.i].id)),
                                   !.invocations = @ + 1]
        ELSE IF depth = 1
        THEN lastRead' =
               [lastRead EXCEPT !.pc = "done", !.stack = << >>,
                                !.val = EntityIds(lastRead.main \o top.result)]
        ELSE lastRead' =
               [lastRead EXCEPT
                  !.stack = [SubSeq(stack, 1, depth - 1) EXCEPT
                               ![depth - 1].result = @ \o top.result,
                               ![depth - 1].i = @ + 1]]
  /\ UNCHANGED <<impl, definitions, processes, nodeInstances, subscriptions, inflight,
                 busLog, calls, disposals, lastEvent, noise>>

\* _getUserTasksForCorrelation, run to its end.
AggregateUserTasks ==
  /\ lastRead.op = "none"
  /\ \E identity \in Identities, correlationId \in CorrelationIds :
       LET Answered(outcome) ==
             [op |-> "_getUserTasksForCorrelation", identity |-> identity,
              processModelKey |-> Undefined, correlationId |-> correlationId,
              err |-> outcome.err, val |-> EntityIds(outcome.val)]
       IN lastRead' = Answered(_getUserTasksForCorrelation(impl, identity, correlationId))
  /\ UNCHANGED <<impl, definitions, processes, nodeInstances, subscriptions, inflight,
                 busLog, calls, disposals, lastEvent, noise>>

CorrelationInit ==
  /\ impl = "AdapterV2"
  /\ \E store \in ProcessForests :
       /\ definitions = store.definitions
       /\ processes = store.processes
       /\ nodeInstances = store.nodeInstances
  /\ subscriptions = {}
  /\ inflight = {}
  /\ busLog = [c \in CallIds |-> << >>]
  /\ calls = [c \in CallIds |-> IdleCall]
  /\ disposals = [c \in CallIds |-> 0]
  /\ lastEvent = [c \in CallIds |-> NoEventYet]
  /\ lastRead = [op |-> "none"]
  /\ noise = 0

CorrelationNext ==
  \/ ResolveProcessInstancesBegin
  \/ ResolveProcessInstancesStep
  \/ AggregateUserTasks

CorrelationSpec == CorrelationInit /\ [][CorrelationNext]_vars

(***************************************************************************)
(* ServiceSpec: ConsumerApiService starts process instances and reads the  *)
(* result of a correlation.  The store holds the end-event instances E1,   *)
(* E2, E3 in any of the instances PI1 (main, corr1), PI2 (called by PI1)   *)
(* and PI3 (main, corr2); the token of a flow-node instance carries the    *)
(* process model, the correlation and the caller of its process instance.  *)
(***************************************************************************)
ServiceCopies == {"ioc_module", "part_000"}

StartCallbackType ==
  {"CallbackOnProcessInstanceCreated", "CallbackOnEndEventReached",
   "CallbackOnProcessInstanceFinished"}

EndEventOf == [PM1 |-> "End1", PM2 |-> "End2"]

EndEventPayloads ==
  [E1 |-> [a |-> "E1"], E2 |-> [a |-> "E2", b |-> "E2"], E3 |-> [b |-> "E3"]]

ServiceStore(processDefKey2, ownerOf) ==
  LET procs ==
        [ PI1 |-> Process("PI1", "PM1", "corr1", Undefined),
          PI2 |-> Process("PI2", processDefKey2, "corr1", "N_CA1"),
          PI3 |-> Process("PI3", "PM1", "corr2", Undefined) ]
      EndEventInstance(e) ==
        NodeInstance(e, EndEventOf[procs[ownerOf[e]].processDefKey], "endEvent",
                     ownerOf[e], "end")
  IN [definitions |-> DefinitionStore,
      processes |-> procs,
      nodeInstances |->
        [ T1    |-> NodeInstance("T1", "UT1", "userTask", "PI1", "wait"),
          N_CA1 |-> NodeInstance("N_CA1", "CA1", "callActivity", "PI1", "wait"),
          E1    |-> EndEventInstance("E1"),
          E2    |-> EndEventInstance("E2"),
          E3    |-> EndEventInstance("E3") ]]

ServiceStores ==
  {ServiceStore(processDefKey2, ownerOf) :
     processDefKey2 \in {"PM1", "PM2"},
     ownerOf \in [{"E1", "E2", "E3"} -> {"PI1", "PI2", "PI3"}]}

\* The token of a flow-node instance.
TokenOf(flowNodeInstance) ==
  [processModelId |-> processes[flowNodeInstance.process].processDefKey,
   correlationId |-> processes[flowNodeInstance.process].correlationId,
   caller |-> processes[flowNodeInstance.process].callerId,
   payload |-> IF flowNodeInstance.id \in DOMAIN EndEventPayloads
               THEN EndEventPayloads[flowNodeInstance.id] ELSE << >>]

queryByCorrelation(correlationId) ==
  LET InCorrelation(n) == TokenOf(n).correlationId = correlationId
  IN FilterSeq(AllNodeInstances, InCorrelation)

\* Object.assign(target, source)
ObjectAssign(target, source) ==
  [k \in DOMAIN target \cup DOMAIN source |->
     IF k \in DOMAIN source THEN source[k] ELSE target[k]]

RECURSIVE MergedPayloads(_, _, _)
MergedPayloads(correlationResult, endEventInstances, i) ==
  IF i > Len(endEventInstances) THEN correlationResult
  ELSE MergedPayloads(ObjectAssign(correlationResult, TokenOf(endEventInstances[i]).payload),
                      endEventInstances, i + 1)

CorrelationResult(endEventInstance) ==
  [correlationId |-> TokenOf(endEventInstance).correlationId,
   endEventId |-> endEventInstance.key,
   tokenPayload |-> TokenOf(endEventInstance).payload,
   ofInstance |-> endEventInstance.id]

\* The filter without the test of the caller of the token.
getProcessResultForCorrelation_AnyCaller(copy, correlationId, processModelId) ==
  LET endEvents == _getNodesByTypeForProcessModel(processModelId, "endEvent")
      Counts(flowNodeInstance) ==
        /\ \E i \in 1..Len(endEvents) : endEvents[i].key = flowNodeInstance.key
        /\ TokenOf(flowNodeInstance).processModelId = processModelId
      Results(endEventInstances) ==
        IF copy = "ioc_module"
        THEN Ok([i \in 1..Len(endEventInstances) |-> CorrelationResult(endEventInstances[i])])
        ELSE Ok(<<MergedPayloads(<< >>, endEventInstances, 1)>>)
      OfInstances(flowNodeInstances) ==
        IF copy = "ioc_module" /\ Len(flowNodeInstances) = 0 THEN Err("NotFound")
        ELSE Results(FilterSeq(flowNodeInstances, Counts))
      WithModel(processModel) == OfInstances(queryByCorrelation(correlationId))
  IN Then(_getProcessModelByKey(processModelId), WithModel)

\* ioc_module.js lists one result per end-event instance and fails with NotFound
\* for a correlation without flow-node instances; part_000 merges the payloads
\* into one object.
getProcessResultForCorrelation(copy, correlationId, processModelId) ==
  LET endEvents == _getNodesByTypeForProcessModel(processModelId, "endEvent")
      Counts(flowNodeInstance) ==
        /\ \E i \in 1..Len(endEvents) : endEvents[i].key = flowNodeInstance.key
        /\ TokenOf(flowNodeInstance).caller = Undefined
        /\ TokenOf(flowNodeInstance).processModelId = processModelId
      Results(endEventInstances) ==
        IF copy = "ioc_module"
        THEN Ok([i \in 1..Len(endEventInstances) |-> CorrelationResult(endEventInstances[i])])
        ELSE Ok(<<MergedPayloads(<< >>, endEventInstances, 1)>>)
      OfInstances(flowNodeInstances) ==
        IF copy = "ioc_module" /\ Len(flowNodeInstances) = 0 THEN Err("NotFound")
        ELSE Results(FilterSeq(flowNodeInstances, Counts))
      WithModel(processModel) == OfInstances(queryByCorrelation(correlationId))
  IN Then(_getProcessModelByKey(processModelId), WithModel)

\* The error _validateStartRequest throws ("none" when the request is valid).
_validateStartRequest_NoEndEventCheck(processModel, startEventId, endEventId, startCallbackType) ==
  LET IsFlowNode(id) ==
        \E i \in 1..Len(processModel.flowNodes) : processModel.flowNodes[i].key = id
  IN IF startCallbackType \notin StartCallbackType THEN "BadRequest"
     ELSE IF ~processModel.isExecutable THEN "BadRequest"
     ELSE IF ~IsFlowNode(startEventId) THEN "NotFound"
     ELSE IF startCallbackType = "CallbackOnEndEventReached" /\ ~IsFlowNode(endEventId)
     THEN "NotFound"
     ELSE "none"

_validateStartRequest(processModel, startEventId, endEventId, startCallbackType) ==
  LET IsFlowNode(id) ==
        \E i \in 1..Len(processModel.flowNodes) : processModel.flowNodes[i].key = id
  IN IF startCallbackType \notin StartCallbackType THEN "BadRequest"
     ELSE IF ~processModel.isExecutable THEN "BadRequest"
     ELSE IF ~IsFlowNode(startEventId) THEN "NotFound"
     ELSE IF startCallbackType = "CallbackOnEndEventReached"
     THEN IF endEventId \in {Undefined, ""} THEN "BadRequest"
          ELSE IF ~IsFlowNode(endEventId) THEN "NotFound"
          ELSE "none"
     ELSE "none"

\* ioc_module.js startProcessInstance: engineAsked tells whether
\* processModelExecutionAdapter.startProcessInstance was called.
startProcessInstance(processModelId, startEventId, startCallbackType, endEventId) ==
  LET Outcome(err) == [err |-> err, engineAsked |-> err = "none"]
      WithModel(processModel) ==
        Outcome(_validateStartRequest(processModel[1], startEventId, endEventId,
                                      startCallbackType))
      Looked(r) == IF r.err # "none" THEN Outcome(r.err) ELSE WithModel(r.val)
  IN Looked(_getProcessModelByKey(processModelId))

GetProcessResult ==
  /\ lastRead.op = "none"
  /\ \E copy \in ServiceCopies, correlationId \in CorrelationIds,
        processModelId \in {"PM1", "PM2", "PMx"} :
       LET Answered(outcome) ==
             [op |-> "getProcessResultForCorrelation", copy |-> copy,
              processModelKey |-> processModelId, correlationId |-> correlationId,
              err |-> outcome.err, val |-> outcome.val]
       IN lastRead' = Answered(getProcessResultForCorrelation(copy, correlationId,
                                                              processModelId))
  /\ UNCHANGED <<impl, definitions, processes, nodeInstances, subscriptions, inflight,
                 busLog, calls, disposals, lastEvent, noise>>

StartProcessInstance ==
  /\ lastRead.op = "none"
  /\ \E processModelId \in {"PM1", "PM3", "PMx"}, startEventId \in {"Start1", "Start3", "StartX"},
        startCallbackType \in StartCallbackType \cup {"invalid"},
        endEventId \in {Undefined, "", "End1", "EndX"} :
       LET Answered(outcome) ==
             [op |-> "startProcessInstance", copy |-> "ioc_module",
              processModelKey |-> processModelId, startEventId |-> startEventId,
              startCallbackType |-> startCallbackType, endEventId |-> endEventId,
              err |-> outcome.err, engineAsked |-> outcome.engineAsked]
       IN lastRead' = Answered(startProcessInstance(processModelId, startEventId,
                                                    startCallbackType, endEventId))
  /\ UNCHANGED <<impl, definitions, processes, nodeInstances, subscriptions, inflight,
                 busLog, calls, disposals, lastEvent, noise>>

ServiceInit ==
  /\ impl = "Service"
  /\ \E store \in ServiceStores :
       /\ definitions = store.definitions
       /\ processes = store.processes
       /\ nodeInstances = store.nodeInstances
  /\ subscriptions = {}
  /\ inflight = {}
  /\ busLog = [c \in CallIds |-> << >>]
  /\ calls = [c \in CallIds |-> IdleCall]
  /\ disposals = [c \in CallIds |-> 0]
  /\ lastEvent = [c \in CallIds |-> NoEventYet]
  /\ lastRead = [op |-> "none"]
  /\ noise = 0

ServiceNext ==
  \/ GetProcessResult
  \/ StartProcessInstance

ServiceSpec == ServiceInit /\ [][ServiceNext]_vars

(***************************************************************************)
(* Start calls that await an end event                                     *)
(*                                                                         *)
(* _startProcessInstanceAndAwaitEndEvent of the adapter (both copies are   *)
(* the same code): the promise executor subscribes to the channel of the   *)
(* created process instance, then awaits _startProcessInstance and stores  *)
(* its result in the variable correlationId the handler resolves with.     *)
(* The engine publishes on the channel once the start event has been       *)
(* started.  StartSpec follows the calls r1 and r2 on the fixed store.     *)
(***************************************************************************)
\* messages the engine publishes on the process channels in one run
MaxMessages == 2

EndEventKeys == {"End1", "End1b"}

\* message.data.data of an 'error' message: a serialized error, a string that
\* BaseError.deserialize rejects, an error object, or nothing.
ErrorContents == {"serializedError", "undeserializableString", "errorObject", Undefined}

ProcessMessage(event, endEventKey, data) ==
  [event |-> event, endEventKey |-> endEventKey, data |-> data]

\* The messages of a process channel: 'end' and 'terminate' name the end event
\* reached, 'error' carries the error; "other" stands for every other kind.
ProcessMessages ==
  {ProcessMessage("end", k, Undefined) : k \in EndEventKeys}
    \cup {ProcessMessage("terminate", "End1b", Undefined)}
    \cup {ProcessMessage("error", Undefined, content) : content \in ErrorContents}
    \cup {ProcessMessage("other", Undefined, Undefined)}

ProcessInstanceChannel(processInstanceId) == Channel(processInstanceId, "process")

\* The process instance createProcessInstance returns to each call.
CreatedInstanceOf == [r1 |-> "PI_r1", r2 |-> "PI_r2"]

\* The correlation id _startProcessInstance gives the instance of each call:
\* the one of the payload (r1) or a drawn one (r2).
StartedCorrelationId == [r1 |-> "corr1", r2 |-> "uuid"]

\* The default error deserializer: what is no string is returned as it is, a
\* string is deserialized, and a failure to do so is thrown on.
errorDeserializer(serializedError) ==
  IF serializedError \in {"errorObject", Undefined} THEN Ok(serializedError)
  ELSE IF serializedError = "serializedError" THEN Ok("errorObject")
  ELSE Err("Error")

HandlerOutcome(settle, error, message, value, cancel, threw) ==
  [settle |-> settle, error |-> error, message |-> message, value |-> value,
   cancel |-> cancel, threw |-> threw]

FailedMessage == "The process failed with an error."
TerminatedMessage(endEventKey) == <<"The process was terminated through the", endEventKey>>

\* A handler that resolves on every 'end' message.
ProcessEndHandler_AnyEnd(endEventToWaitFor, correlationId, message) ==
  IF message.event = "end"
  THEN HandlerOutcome("resolved", "none", Undefined, correlationId, TRUE, "none")
  ELSE IF message.event = "terminate"
  THEN HandlerOutcome("rejected", "InternalServerError",
                      TerminatedMessage(message.endEventKey), Undefined, FALSE, "none")
  ELSE IF message.event = "error" /\ errorDeserializer(message.data).err = "none"
          /\ errorDeserializer(message.data).val # Undefined
  THEN HandlerOutcome("rejected", "InternalServerError", FailedMessage, Undefined, TRUE, "none")
  ELSE HandlerOutcome("none", "none", Undefined, Undefined, FALSE, "none")

\* The handler the executor subscribes with. endEventToWaitFor and correlationId
\* are the variables of the enclosing call it reads.
ProcessEndHandler(endEventToWaitFor, correlationId, message) ==
  LET Ignored == HandlerOutcome("none", "none", Undefined, Undefined, FALSE, "none")
      Deserialized(r) ==
        IF r.err # "none"
        THEN HandlerOutcome("none", "none", Undefined, Undefined, FALSE, r.err)
        ELSE IF r.val = Undefined  \* deserializedError.message of undefined
        THEN HandlerOutcome("none", "none", Undefined, Undefined, FALSE, "TypeError")
        ELSE HandlerOutcome("rejected", "InternalServerError", FailedMessage, Undefined,
                            TRUE, "none")
  IN IF message.event = "error" THEN Deserialized(errorDeserializer(message.data))
     ELSE IF message.event = "terminate"
     THEN HandlerOutcome("rejected", "InternalServerError",
                         TerminatedMessage(message.endEventKey), Undefined, FALSE, "none")
     ELSE IF message.event # "end" THEN Ignored
     ELSE IF endEventToWaitFor = Undefined \/ message.endEventKey = endEventToWaitFor
     THEN HandlerOutcome("resolved", "none", Undefined, correlationId, TRUE, "none")
     ELSE Ignored

IdleStartCall ==
  [pc |-> "idle", stage |-> "none", processInstanceId |-> Undefined,
   endEventToWaitFor |-> Undefined, correlationId |-> Undefined,
   error |-> "none", message |-> Undefined, value |-> Undefined]

NoMessageYet ==
  [message |-> ProcessMessage("none", Undefined, Undefined), settledBefore |-> FALSE,
   threw |-> "none", handled |-> 0]

\* The executor up to the await of _startProcessInstance: the instance has been
\* created by the public operation, the handler is subscribed.
\* endEventToWaitFor is undefined (startProcessInstance) or the key of an end
\* event (startProcessInstanceAndAwaitEndEvent).
StartAndAwaitBegin(c) ==
  /\ calls[c].pc = "idle"
  /\ \E endEventToWaitFor \in EndEventKeys \cup {Undefined} :
       calls' = [calls EXCEPT ![c] =
                   [IdleStartCall EXCEPT !.pc = "pending", !.stage = "subscribed",
                                         !.processInstanceId = CreatedInstanceOf[c],
                                         !.endEventToWaitFor = endEventToWaitFor]]
  /\ processes' = processes @@
       (CreatedInstanceOf[c] :> Process(CreatedInstanceOf[c], "PM1", Undefined, Undefined))
  /\ subscriptions' = Subscribe(subscriptions, c, ProcessInstanceChannel(CreatedInstanceOf[c]))
  /\ UNCHANGED <<impl, definitions, nodeInstances, inflight, busLog, disposals, lastEvent,
                 lastRead, noise>>

\* _startProcessInstance runs to its end: the instance gets its correlation id
\* and the start event is started. The awaiting executor has not resumed yet.
StartProcessInstanceRuns(c) ==
  /\ calls[c].stage = "subscribed"
  /\ processes' = [processes EXCEPT ![calls[c].processInstanceId].correlationId =
                                     StartedCorrelationId[c]]
  /\ calls' = [calls EXCEPT ![c].stage = "started"]
  /\ UNCHANGED <<impl, definitions, nodeInstances, subscriptions, inflight, busLog,
                 disposals, lastEvent, lastRead, noise>>

\* The executor resumes after the await and assigns correlationId.
StartAndAwaitContinue(c) ==
  /\ calls[c].stage = "started"
  /\ calls' = [calls EXCEPT ![c].stage = "assigned",
                            ![c].correlationId =
                               processes[calls[c].processInstanceId].correlationId]
  /\ UNCHANGED <<impl, definitions, processes, nodeInstances, subscriptions, inflight,
                 busLog, disposals, lastEvent, lastRead, noise>>

\* The engine publishes a message on the channel of a started instance; it is
\* handed to the handlers subscribed at that moment.
EnginePublishesProcessMessage ==
  /\ noise < MaxMessages
  /\ \E c \in CallIds, message \in ProcessMessages :
       /\ calls[c].stage \in {"started", "assigned"}
       /\ inflight' = inflight \cup
            { Delivery(s.owner, Undefined, s.channel, message, calls[c].processInstanceId,
                       noise + 1) :
                s \in {x \in subscriptions :
                         x.channel = ProcessInstanceChannel(calls[c].processInstanceId)} }
  /\ noise' = noise + 1
  /\ UNCHANGED <<impl, definitions, processes, nodeInstances, subscriptions, busLog, calls,
                 disposals, lastEvent, lastRead>>

\* The message bus runs the handler of call c with a message it was handed. A
\* cancelled subscription is not run. A promise settles once: resolve and
\* reject of a settled call change nothing.
DeliverProcessMessage(c) ==
  \E d \in inflight :
    /\ d.to = c
    /\ inflight' = inflight \ {d}
    /\ IF [owner |-> c, channel |-> d.channel] \in subscriptions
       THEN LET Handled(outcome) ==
                  /\ subscriptions' = IF outcome.cancel
                                      THEN subscriptions \ {[owner |-> c, channel |-> d.channel]}
                                      ELSE subscriptions
                  /\ disposals' = [disposals EXCEPT ![c] = @ + (IF outcome.cancel THEN 1 ELSE 0)]
                  /\ lastEvent' = [lastEvent EXCEPT ![c] =
                                     [message |-> d.event,
                                      settledBefore |-> calls[c].pc # "pending",
                                      threw |-> outcome.threw,
                                      handled |-> @.handled + 1]]
                  /\ calls' = IF outcome.settle # "none" /\ calls[c].pc = "pending"
                              THEN [calls EXCEPT ![c].pc = outcome.settle,
                                                 ![c].error = outcome.error,
                                                 ![c].message = outcome.message,
                                                 ![c].value = outcome.value]
                              ELSE calls
            IN Handled(ProcessEndHandler(calls[c].endEventToWaitFor, calls[c].correlationId,
                                         d.event))
       ELSE UNCHANGED <<subscriptions, disposals, lastEvent, calls>>
    /\ UNCHANGED <<impl, definitions, processes, nodeInstances, busLog, lastRead, noise>>

StartInit ==
  /\ impl \in Adapters
  /\ definitions = DefinitionStore
  /\ processes = ProcessTable
  /\ nodeInstances = NodeInstanceTable
  /\ subscriptions = {}
  /\ inflight = {}
  /\ busLog = [c \in CallIds |-> << >>]
  /\ calls = [c \in CallIds |-> IdleStartCall]
  /\ disposals = [c \in CallIds |-> 0]
  /\ lastEvent = [c \in CallIds |-> NoMessageYet]
  /\ lastRead = [op |-> "none"]
  /\ noise = 0

StartNext ==
  \/ \E c \in CallIds : StartAndAwaitBegin(c)
  \/ \E c \in CallIds : StartProcessInstanceRuns(c)
  \/ \E c \in CallIds : StartAndAwaitContinue(c)
  \/ EnginePublishesProcessMessage
  \/ \E c \in CallIds : DeliverProcessMessage(c)

StartSpec == StartInit /\ [][StartNext]_vars

(***************************************************************************)
(* All read operations                                                     *)
(*                                                                         *)
(* ReadSpec adds getProcessModels and getProcessResultForCorrelation to    *)
(* the requests of Spec.                                                   *)
(***************************************************************************)
\* The order in which the store lists the process definitions.
ProcessModelOrder == <<"PM1", "PM2", "PM3">>

RECURSIVE ProcessModelsFrom(_, _, _, _)
\* The loop of getProcessModels of the adapter: a model the identity may not
\* access is left out, any other error is thrown on.
ProcessModelsFrom(variant, identity, processModels, i) ==
  IF i > Len(processModels) THEN Ok(<< >>)
  ELSE LET Combined(mapped, rest) ==
             IF mapped.err \notin {"none", "Forbidden"} THEN mapped
             ELSE IF rest.err # "none" THEN rest
             ELSE IF mapped.err = "Forbidden" THEN rest
             ELSE Ok(<<[key |-> processModels[i], startEvents |-> mapped.val]>> \o rest.val)
       IN Combined(getProcessModelByKey(variant, identity, processModels[i]),
                   ProcessModelsFrom(variant, identity, processModels, i + 1))

\* getProcessModels: the adapter maps every definition with getProcessModelByKey,
\* the service converts every model the process model service returns.
getProcessModels(variant, identity) ==
  LET Held(key) == key \in DOMAIN definitions.processDefs
  IN ProcessModelsFrom(variant, identity, FilterSeq(ProcessModelOrder, Held), 1)

ReadProcessModels ==
  /\ \A c \in CallIds : calls[c].pc = "idle"
  /\ \E identity \in Identities :
       LET Answered(outcome) ==
             [op |-> "getProcessModels", identity |-> identity,
              processModelKey |-> Undefined, correlationId |-> Undefined,
              err |-> outcome.err, val |-> outcome.val]
       IN lastRead' = Answered(getProcessModels(impl, identity))
  /\ UNCHANGED <<impl, definitions, processes, nodeInstances, subscriptions, inflight,
                 busLog, calls, disposals, lastEvent, noise>>

\* getProcessResultForCorrelation of ConsumerApiService.
ReadProcessResult ==
  /\ impl = "Service"
  /\ \A c \in CallIds : calls[c].pc = "idle"
  /\ GetProcessResult

ReadNext ==
  \/ Next
  \/ ReadProcessModels
  \/ ReadProcessResult

ReadSpec == Init /\ [][ReadNext]_vars

(***************************************************************************)
(* Task lists over definitions with and without form fields                *)
(*                                                                         *)
(* FormSpec runs the read requests of the adapter copies against the fixed *)
(* store with every shape of form fields for the user tasks UT2 (PM1) and  *)
(* UT3 (PM2).                                                              *)
(***************************************************************************)
WithFormFields(flowNodes, key, shape) ==
  [i \in 1..Len(flowNodes) |->
     IF flowNodes[i].key = key THEN [flowNodes[i] EXCEPT !.formFields = shape]
     ELSE flowNodes[i]]

FormDefinitions(shapeOfUT2, shapeOfUT3) ==
  [DefinitionStore EXCEPT
     !.processDefs.PM1.flowNodes = WithFormFields(@, "UT2", shapeOfUT2),
     !.processDefs.PM2.flowNodes = WithFormFields(@, "UT3", shapeOfUT3)]

FormInit ==
  /\ impl \in Adapters
  /\ \E shapeOfUT2 \in FormFieldShapes, shapeOfUT3 \in FormFieldShapes :
       definitions = FormDefinitions(shapeOfUT2, shapeOfUT3)
  /\ processes = ProcessTable
  /\ nodeInstances = NodeInstanceTable
  /\ subscriptions = {}
  /\ inflight = {}
  /\ busLog = [c \in CallIds |-> << >>]
  /\ calls = [c \in CallIds |-> IdleCall]
  /\ disposals = [c \in CallIds |-> 0]
  /\ lastEvent = [c \in CallIds |-> NoEventYet]
  /\ lastRead = [op |-> "none"]
  /\ noise = 0

\* One read request per run.
FormRead ==
  /\ lastRead.op = "none"
  /\ Read

FormNext == FormRead

FormSpec == FormInit /\ [][FormNext]_vars

(***************************************************************************)
(* The process-model keys of a correlation on any call structure           *)
(*                                                                         *)
(* ModelKeySpec runs _getProcessModelKeysForCorrelation of the second      *)
(* adapter copy on definitions whose call activities reference any model,  *)
(* one invocation of _getSubProcessModelKeys at a time: every invocation   *)
(* awaits the query of the call activities of its model.                   *)
(***************************************************************************)
WithCallActivity(flowNodes, key, subProcessKey) ==
  LET NoSuchNode(n) == n.key # key
  IN FilterSeq(flowNodes, NoSuchNode)
       \o (IF subProcessKey = Undefined THEN << >>
           ELSE <<FlowNode(key, "callActivity", "extensionsUndefined", subProcessKey)>>)

\* PM1 calls calledBy1 from CA1; PM2 and PM3 call calledBy2 and calledBy3, or
\* have no call activity.
CallDefinitions(calledBy1, calledBy2, calledBy3) ==
  [DefinitionStore EXCEPT
     !.processDefs.PM1.flowNodes = WithCallActivity(@, "CA1", calledBy1),
     !.processDefs.PM2.flowNodes = WithCallActivity(@, "CA2", calledBy2),
     !.processDefs.PM3.flowNodes = WithCallActivity(@, "CA3", calledBy3)]

CallStructures ==
  {CallDefinitions(calledBy1, calledBy2, calledBy3) :
     calledBy1 \in {"PM1", "PM2", "PM3", "PMx"},
     calledBy2 \in {Undefined, "PM1", "PM2", "PM3"},
     calledBy3 \in {Undefined, "PM1", "PM3"}}

\* One invocation of _getSubProcessModelKeys up to its loop: the keys its call
\* activities reference, the loop position and the result collected so far.
ModelKeyFrame(processModelKey) ==
  LET Frame(callActivities) ==
        LET keys == [i \in 1..Len(callActivities) |-> callActivities[i].subProcessKey]
        IN [key |-> processModelKey, keys |-> keys, i |-> 1, result |-> keys]
  IN Frame(_getNodesByTypeForProcessModel(processModelKey, "callActivity"))

ModelKeyResolution(correlationId, pc, err, val, main, stack, invocations) ==
  [op |-> "_getProcessModelKeysForCorrelation", identity |-> {},
   processModelKey |-> Undefined, correlationId |-> correlationId,
   pc |-> pc, err |-> err, val |-> val, main |-> main, stack |-> stack,
   invocations |-> invocations]

\* _getProcessModelKeysForCorrelation up to the first invocation of
\* _getSubProcessModelKeys.
ResolveModelKeysBegin ==
  /\ lastRead.op = "none"
  /\ \E correlationId \in CorrelationIds :
       LET Failed(r) == ModelKeyResolution(correlationId, "done", r.err, << >>, Undefined,
                                           << >>, 0)
           WithMain(main) ==
             ModelKeyResolution(correlationId, "running", "none", << >>,
                                main[1].processDefKey,
                                <<ModelKeyFrame(main[1].processDefKey)>>, 1)
           WithMainId(mainId) ==
             LET Looked(r) == IF r.err # "none" THEN Failed(r) ELSE WithMain(r.val)
             IN Looked(_getProcessInstanceById(mainId[1]))
           Started(r) == IF r.err # "none" THEN Failed(r) ELSE WithMainId(r.val)
       IN lastRead' = Started(_getMainProcessInstanceIdFromCorrelation(correlationId))
  /\ UNCHANGED <<impl, definitions, processes, nodeInstances, subscriptions, inflight,
                 busLog, calls, disposals, lastEvent, noise>>

\* The loop of the innermost invocation: it calls _getSubProcessModelKeys for
\* the model of its next call activity, or returns its result to the invocation
\* that awaits it.
ResolveModelKeysStep ==
  /\ lastRead.op = "_getProcessModelKeysForCorrelation"
  /\ lastRead.pc = "running"
  /\ LET stack == lastRead.stack
         depth == Len(stack)
         top == stack[depth]
     IN IF top.i <= Len(top.keys)
        THEN /\ lastRead.invocations < MaxInvocations
             /\ lastRead' =
                  [lastRead EXCEPT !.stack = Append(stack, ModelKeyFrame(top.keys[top.i])),
                                   !.invocations = @ + 1]
        ELSE IF depth = 1
        THEN lastRead' =
               [lastRead EXCEPT !.pc = "done", !.stack = << >>,
                                !.val = <<lastRead.main>> \o top.result]
        ELSE lastRead' =
               [lastRead EXCEPT
                  !.stack = [SubSeq(stack, 1, depth - 1) EXCEPT
                               ![depth - 1].result = @ \o top.result,
                               ![depth - 1].i = @ + 1]]
  /\ UNCHANGED <<impl, definitions, processes, nodeInstances, subscriptions, inflight,
                 busLog, calls, disposals, lastEvent, noise>>

ModelKeyInit ==
  /\ impl = "AdapterV2"
  /\ definitions \in CallStructures
  /\ \E mainModel \in {"PM1", "PM2", "PM3"} :
       processes = [ProcessTable EXCEPT !.PI1.processDefKey = mainModel]
  /\ nodeInstances = NodeInstanceTable
  /\ subscriptions = {}
  /\ inflight = {}
  /\ busLog = [c \in CallIds |-> << >>]
  /\ calls = [c \in CallIds |-> IdleCall]
  /\ disposals = [c \in CallIds |-> 0]
  /\ lastEvent = [c \in CallIds |-> NoEventYet]
  /\ lastRead = [op |-> "none"]
  /\ noise = 0

ModelKeyNext ==
  \/ ResolveModelKeysBegin
  \/ ResolveModelKeysStep

ModelKeySpec == ModelKeyInit /\ [][ModelKeyNext]_vars

(***************************************************************************)
(* Triggering message and signal events (EventService)                     *)
(*                                                                         *)
(* EventSpec runs triggerMessageEvent and triggerSignalEvent of the event  *)
(* service: each call awaits the claim check of the IAM service and then   *)
(* publishes on the event aggregator.  busLog[c] holds what call c         *)
(* published, inflight what the aggregator received.                       *)
(***************************************************************************)
canTriggerMessagesClaim == "can_trigger_messages"
canTriggerSignalsClaim == "can_trigger_signals"

TriggerIdentities == SUBSET {canTriggerMessagesClaim, canTriggerSignalsClaim}
EventNames == {"ev1", "ev2"}
EventTriggerPayloads == {Undefined, "payload"}

\* IIAMService.ensureHasClaim: resolves for an identity that holds the claim and
\* rejects with a ForbiddenError otherwise.
ensureHasClaim(identity, claimName) ==
  IF hasClaim(identity, claimName) THEN Ok(<< >>) ELSE Err("Forbidden")

\* messagePaths.messageEventReached and signalEventReached with the reference
\* parameter replaced by the name.
messageEventName(messageName) == <<"messageEventReached", messageName>>
signalEventName(signalName) == <<"signalEventReached", signalName>>

Published(eventName, payload) == [eventName |-> eventName, payload |-> payload]

IdleTriggerCall ==
  [pc |-> "idle", op |-> "none", identity |-> {}, name |-> Undefined,
   payload |-> Undefined, check |-> Ok(<< >>), error |-> "none"]

\* triggerMessageEvent up to the await of ensureHasClaim.
TriggerMessageEventBegin(c) ==
  /\ calls[c].pc = "idle"
  /\ \E identity \in TriggerIdentities, messageName \in EventNames,
        payload \in EventTriggerPayloads :
       calls' = [calls EXCEPT ![c] =
                   [pc |-> "checking", op |-> "triggerMessageEvent",
                    identity |-> identity, name |-> messageName, payload |-> payload,
                    check |-> ensureHasClaim(identity, canTriggerMessagesClaim),
                    error |-> "none"]]
  /\ UNCHANGED <<impl, definitions, processes, nodeInstances, subscriptions, inflight,
                 busLog, disposals, lastEvent, lastRead, noise>>

\* triggerSignalEvent up to the await of ensureHasClaim.
TriggerSignalEventBegin(c) ==
  /\ calls[c].pc = "idle"
  /\ \E identity \in TriggerIdentities, signalName \in EventNames,
        payload \in EventTriggerPayloads :
       calls' = [calls EXCEPT ![c] =
                   [pc |-> "checking", op |-> "triggerSignalEvent",
                    identity |-> identity, name |-> signalName, payload |-> payload,
                    check |-> ensureHasClaim(identity, canTriggerSignalsClaim),
                    error |-> "none"]]
  /\ UNCHANGED <<impl, definitions, processes, nodeInstances, subscriptions, inflight,
                 busLog, disposals, lastEvent, lastRead, noise>>

\* A variant that publishes whatever the claim check answered.
TriggerEventContinue_NoCheck(c) ==
  /\ calls[c].pc = "checking"
  /\ LET call == calls[c]
         eventName == IF call.op = "triggerMessageEvent"
                      THEN messageEventName(call.name)
                      ELSE signalEventName(call.name)
         event == Published(eventName, call.payload)
     IN /\ calls' = [calls EXCEPT ![c].pc = "done", ![c].error = call.check.err]
        /\ busLog' = [busLog EXCEPT ![c] = Append(@, event)]
        /\ inflight' = inflight \cup {event}
  /\ UNCHANGED <<impl, definitions, processes, nodeInstances, subscriptions,
                 disposals, lastEvent, lastRead, noise>>

\* The rest of either operation after the await: a rejected check rejects the
\* call, otherwise the event is published.
TriggerEventContinue(c) ==
  /\ calls[c].pc = "checking"
  /\ LET call == calls[c]
         eventName == IF call.op = "triggerMessageEvent"
                      THEN messageEventName(call.name)
                      ELSE signalEventName(call.name)
         event == Published(eventName, call.payload)
     IN IF call.check.err # "none"
        THEN /\ calls' = [calls EXCEPT ![c].pc = "done", ![c].error = call.check.err]
             /\ UNCHANGED <<busLog, inflight>>
        ELSE /\ calls' = [calls EXCEPT ![c].pc = "done"]
             /\ busLog' = [busLog EXCEPT ![c] = Append(@, event)]
             /\ inflight' = inflight \cup {event}
  /\ UNCHANGED <<impl, definitions, processes, nodeInstances, subscriptions,
                 disposals, lastEvent, lastRead, noise>>

EventInit ==
  /\ impl = "EventService"
  /\ definitions = DefinitionStore
  /\ processes = ProcessTable
  /\ nodeInstances = NodeInstanceTable
  /\ subscriptions = {}
  /\ inflight = {}
  /\ busLog = [c \in CallIds |-> << >>]
  /\ calls = [c \in CallIds |-> IdleTriggerCall]
  /\ disposals = [c \in CallIds |-> 0]
  /\ lastEvent = [c \in CallIds |-> NoEventYet]
  /\ lastRead = [op |-> "none"]
  /\ noise = 0

EventNext ==
  \/ \E c \in CallIds : TriggerMessageEventBegin(c)
  \/ \E c \in CallIds : TriggerSignalEventBegin(c)
  \/ \E c \in CallIds : TriggerEventContinue(c)

EventSpec == EventInit /\ [][EventNext]_vars

(***************************************************************************)
(* Properties                                                              *)
(***************************************************************************)
CompletionEvents == {EndedEvent, FinishedEvent}

Registered(c) == \E s \in subscriptions : s.owner = c

\* C1: every finishUserTask call that reaches the rendezvous registers its
\* completion subscription before it publishes the proceed/finish message; no
\* call publishes first.
C1_SubscribeBeforePublish ==
  \A c \in CallIds :
    \A i \in 1..Len(busLog[c]) :
      busLog[c][i].op = "publish" =>
        \E j \in 1..(i - 1) :
          /\ busLog[c][j].op = "subscribe"
          /\ busLog[c][j].channel = calls[c].channel

\* A call has subscribed and then published, and waits.
C1_Witness ==
  \E c \in CallIds :
    /\ calls[c].pc = "pending"
    /\ Len(busLog[c]) = 2
    /\ busLog[c][1].op = "subscribe"
    /\ busLog[c][2].op = "publish"
    /\ [owner |-> c, channel |-> calls[c].channel] \in subscriptions

\* C2: a finishUserTask call resolves only on an event that says the task has
\* finished/ended; never on the proceed message it published itself nor on
\* another event of the channel that is no completion.
C2_ResolvesOnlyOnCompletion ==
  \A c \in CallIds :
    calls[c].pc = "resolved" => lastEvent[c].event \in CompletionEvents

\* C3: with calls pending for two different suspended user-task instances, the
\* completion event of one instance never resolves the call that waits for the
\* other one (Service, whose channel carries the converter's task id).
C3_NoCrossTalk ==
  impl = "Service" =>
    \A c, other \in CallIds :
      (/\ calls[c].pc = "resolved"
       /\ calls[other].pc = "pending"
       /\ calls[other].instance # calls[c].instance) =>
        lastEvent[c].about # calls[other].instance

MalformedResults == UserTaskResults \ {"validObject"}

\* C5: finishUserTask on a visible task fails with BadRequest for every result
\* whose form fields are no plain non-array object with at least one entry
\* (undefined result, undefined form fields, null, a primitive, an array, an
\* empty object), and then nothing is subscribed and nothing is published.
C5_BadRequestForMalformedResult ==
  \A c \in CallIds :
    (calls[c].stage \in {"validate", "rendezvous"} /\ calls[c].result \in MalformedResults) =>
      /\ calls[c].pc = "rejected"
      /\ calls[c].error = "BadRequest"
      /\ busLog[c] = << >>
      /\ ~Registered(c)

\* The ids by which the listed tasks can be addressed.
ListedIds(c) == {calls[c].tasks[i].key : i \in 1..Len(calls[c].tasks)}
                \cup {calls[c].tasks[i].id : i \in 1..Len(calls[c].tasks)}

\* The step that ends the lookup of a call.
NotFoundForUnlistedTaskStep ==
  \A c \in CallIds :
    (/\ calls[c].pc = "resolving"
     /\ calls'[c].pc # "resolving"
     /\ calls'[c].userTaskId \notin ListedIds(c)) =>
      /\ calls'[c].pc = "rejected"
      /\ calls'[c].error = "NotFound"
      /\ busLog'[c] = << >>
      /\ \A s \in subscriptions' : s.owner # c
      /\ inflight' = inflight

\* C6: finishUserTask fails with NotFound whenever the given task id is not
\* among the tasks the listing returned to the call, and then nothing is
\* subscribed and nothing is published.
C6_NotFoundForUnlistedTask == [][NotFoundForUnlistedTaskStep]_vars

\* A call was rejected by the lookup of the task.
C6_Witness ==
  \E c \in CallIds :
    /\ calls[c].pc = "rejected"
    /\ calls[c].stage = "find"
    /\ calls[c].error = "NotFound"
    /\ calls[c].userTaskId = "UTx"
    /\ busLog[c] = << >>
    /\ ~Registered(c)

\* One step of a waiting call: it stays, or a completion event resolves it.
PendingUntilCompletionStep ==
  impl \in {"AdapterV2", "Service"} =>
    \A c \in CallIds :
      calls[c].pc = "pending" =>
        /\ calls'[c].pc \in {"pending", "resolved"}
        /\ calls'[c].pc = "resolved" =>
             /\ lastEvent'[c].event \in CompletionEvents
             /\ lastEvent'[c].handled = lastEvent[c].handled + 1
        /\ calls'[c].pc = "pending" =>
             [owner |-> c, channel |-> calls[c].channel] \in subscriptions'

C8_OnlyTasksOfRequestedPair ==
  (lastRead.op = "getUserTasksForProcessModelInCorrelation" /\ lastRead.err = "none") =>
    \A i \in 1..Len(lastRead.val) :
      LET node == nodeInstances[lastRead.val[i].ofInstance]
      IN /\ node.type = "userTask"
         /\ node.state = "wait"
         /\ processes[node.process].processDefKey = lastRead.processModelKey
         /\ processes[node.process].correlationId = lastRead.correlationId

\* The lanes an identity can access below a lane set: a lane whose name is a
\* claim of the identity, and below it the accessible lanes of its child set.
RECURSIVE AccessibleLanesBelow(_, _)
AccessibleLanesBelow(identity, laneSet) ==
  IF laneSet = Undefined THEN {}
  ELSE UNION { {l} \cup AccessibleLanesBelow(identity, definitions.lanes[l].childLaneSet) :
               l \in {x \in Range(definitions.laneSets[laneSet]) :
                        /\ definitions.lanes[x].name \notin {Undefined, ""}
                        /\ definitions.lanes[x].name \in identity} }

AccessibleLanesOfModel(identity, processModelKey) ==
  UNION { AccessibleLanesBelow(identity, ls) :
          ls \in Range(definitions.processDefs[processModelKey].laneSets) }

\* The process models of a correlation: those of its instances.
ModelsOfCorrelation(correlationId) ==
  {processes[p].processDefKey : p \in {x \in DOMAIN processes :
                                         processes[x].correlationId = correlationId}}

\* The read request asks for something that exists, and the identity can access
\* no lane of what it asks for.
ScopeWithoutAccessibleLane ==
  /\ lastRead.op \in ReadOps
  /\ CASE lastRead.op \in {"getUserTasksForProcessModel", "getProcessModelByKey"} ->
            /\ lastRead.processModelKey \in DOMAIN definitions.processDefs
            /\ AccessibleLanesOfModel(lastRead.identity, lastRead.processModelKey) = {}
       [] lastRead.op = "getUserTasksForCorrelation" ->
            /\ ModelsOfCorrelation(lastRead.correlationId) # {}
            /\ \A m \in ModelsOfCorrelation(lastRead.correlationId) :
                 AccessibleLanesOfModel(lastRead.identity, m) = {}
       [] lastRead.op = "getUserTasksForProcessModelInCorrelation" ->
            /\ lastRead.processModelKey \in ModelsOfCorrelation(lastRead.correlationId)
            /\ AccessibleLanesOfModel(lastRead.identity, lastRead.processModelKey) = {}

ReferencedByAccessibleLane(identity, processModelKey, flowNodeKey) ==
  \E l \in AccessibleLanesOfModel(identity, processModelKey) :
    flowNodeKey \in definitions.lanes[l].flowNodeRef

\* C10: a suspended user task or a start/end event is returned only if its flow
\* node maps to a lane of the identity's accessible-lane set; an item in no lane
\* or in a lane the identity cannot access is never returned (adapter copies).
C10_OnlyItemsInAccessibleLanes ==
  (impl \in Adapters /\ lastRead.op \in ReadOps /\ lastRead.err = "none") =>
    \A i \in 1..Len(lastRead.val) :
      LET item == lastRead.val[i]
      IN IF lastRead.op = "getProcessModelByKey"
         THEN ReferencedByAccessibleLane(lastRead.identity, lastRead.processModelKey, item.key)
         ELSE ReferencedByAccessibleLane(lastRead.identity,
                               processes[nodeInstances[item.ofInstance].process].processDefKey,
                               item.key)
(***************************************************************************)
(* Properties of the resolvers (ResolverSpec)                              *)
(***************************************************************************)
LanesAnswer == lastRead.op = "_getIdsOfLanesThatCanBeAccessed" /\ lastRead.err = "none"

NamelessLanes ==
  {l \in DOMAIN definitions.lanes : definitions.lanes[l].name \in {"", Undefined}}

\* C12: whatever claims the identity holds and whatever the lane-set tree is,
\* the accessible-lane result of either adapter copy holds no lane whose name
\* is the empty string or undefined.
C12_NamelessLaneNeverAccessible ==
  LanesAnswer => \A i \in 1..Len(lastRead.val) : lastRead.val[i] \notin NamelessLanes

\* A lane without a name below an accessible lane, asked for by the identity
\* that holds the claims "" and undefined, and a non-empty answer.
C12_Witness ==
  /\ LanesAnswer
  /\ lastRead.identity = {"cB", "", Undefined}
  /\ Len(lastRead.val) > 0
  /\ \E l \in NamelessLanes :
       /\ definitions.lanes[l].name = ""
       /\ \E a \in Range(lastRead.val) :
            l \in Range(definitions.laneSets[ChildLaneSetOf[a]])

\* The lanes whose child lane set lists lane l (at most one in a tree).
LaneOwners(l) ==
  {a \in DOMAIN definitions.lanes :
     /\ definitions.lanes[a].childLaneSet # Undefined
     /\ l \in Range(definitions.laneSets[definitions.lanes[a].childLaneSet])}

RECURSIVE LaneAncestors(_)
LaneAncestors(l) == LaneOwners(l) \cup UNION {LaneAncestors(a) : a \in LaneOwners(l)}

\* The root lane sets an implementation reads of a process model.
LaneSetsRead(variant, processModelKey) ==
  LET laneSets == definitions.processDefs[processModelKey].laneSets
  IN IF variant = "AdapterV1" /\ Len(laneSets) > 0 THEN {laneSets[1]} ELSE Range(laneSets)

LanesOfModel(variant, processModelKey) ==
  {l \in DOMAIN definitions.lanes :
     \E r \in {l} \cup LaneAncestors(l), ls \in LaneSetsRead(variant, processModelKey) :
        r \in Range(definitions.laneSets[ls])}

HoldsClaimOf(identity, l) ==
  /\ definitions.lanes[l].name \notin {"", Undefined}
  /\ definitions.lanes[l].name \in identity

\* C13: the accessible-lane result is exactly the set of lanes that have a
\* non-empty name the identity holds as a claim and whose ancestor lanes all
\* have one too; a lane below an inaccessible lane is not returned, and a
\* process without lane set yields the empty result.
C13_ExactlyLanesWithAccessibleAncestors ==
  LanesAnswer =>
    Range(lastRead.val) =
      {l \in LanesOfModel(impl, lastRead.processModelKey) :
         \A a \in {l} \cup LaneAncestors(l) : HoldsClaimOf(lastRead.identity, a)}

\* The identity holds the claim of a lane that lies below a lane it cannot
\* access, and another lane is returned.
C13_Witness ==
  /\ LanesAnswer
  /\ Len(lastRead.val) > 0
  /\ \E l \in LanesOfModel(impl, lastRead.processModelKey) :
       /\ HoldsClaimOf(lastRead.identity, l)
       /\ \E a \in LaneAncestors(l) : ~HoldsClaimOf(lastRead.identity, a)
       /\ l \notin Range(lastRead.val)

NoDuplicates(ids) == \A i, j \in 1..Len(ids) : ids[i] = ids[j] => i = j

\* The lanes the answer would hold whatever the order of the lanes in their
\* lane sets is.
LanesInAnyOrder(variant, identity, processModelKey) ==
  {l \in LanesOfModel(variant, processModelKey) :
     \A a \in {l} \cup LaneAncestors(l) : HoldsClaimOf(identity, a)}

\* C14: the accessible-lane result holds no lane id twice, for one process
\* definition and for the union over the process models of a correlation (also
\* when a model occurs several times in it), and the ids do not depend on the
\* order of the lanes inside the lane sets.
C14_AccessibleLanesAreASet ==
  /\ LanesAnswer =>
       /\ NoDuplicates(lastRead.val)
       /\ Range(lastRead.val) =
            LanesInAnyOrder(impl, lastRead.identity, lastRead.processModelKey)
  /\ (lastRead.op = "accessibleLaneIds" /\ lastRead.err = "none") =>
       NoDuplicates(lastRead.val)

\* The lanes of the lane-set tree of a process model that reference a flow node.
LanesReferencing(processModelKey, elementId) ==
  {l \in LanesOfModel("AdapterV2", processModelKey) :
     elementId \in definitions.lanes[l].flowNodeRef}

\* C15: whenever a lane of the lane-set tree references the flow node,
\* _getLaneIdForElement returns a lane that references it and has no lane below
\* it that references it too (the innermost one), whatever the tree shape and
\* the lane order; it returns undefined only when no lane references the node.
C15_InnermostReferencingLane ==
  lastRead.op = "_getLaneIdForElement" =>
    LET referencing == LanesReferencing(lastRead.processModelKey, lastRead.val[1])
        laneId == lastRead.val[2]
    IN IF referencing = {} THEN laneId = Undefined
       ELSE /\ laneId \in referencing
            /\ \A l \in referencing : laneId \notin LaneAncestors(l)

(***************************************************************************)
(* Properties of the correlation resolver (CorrelationSpec)                *)
(***************************************************************************)
InstancesResolved ==
  lastRead.op = "_getProcessInstancesForCorrelation" /\ lastRead.pc = "done"

\* The process instances of a correlation that are not sub-processes.
MainInstancesOf(correlationId) ==
  {p \in DOMAIN processes :
     processes[p].correlationId = correlationId /\ processes[p].isSubProcess = FALSE}

\* C16: when no process instance with the correlation id and isSubProcess =
\* false exists (no instance carries the id, or only sub-process instances do),
\* _getProcessInstancesForCorrelation fails with NotFound and returns no
\* instance list.
C16_NotFoundWithoutMainInstance ==
  (InstancesResolved /\ MainInstancesOf(lastRead.correlationId) = {}) =>
    lastRead.err = "NotFound" /\ lastRead.val = << >>

\* The instances started by a call activity of instance p.
SpawnedBy(p) ==
  {q \in DOMAIN processes :
     /\ processes[q].callerId \in DOMAIN nodeInstances
     /\ nodeInstances[processes[q].callerId].type = "callActivity"
     /\ nodeInstances[processes[q].callerId].process = p}

RECURSIVE SpawnedTransitively(_)
SpawnedTransitively(p) == SpawnedBy(p) \cup UNION {SpawnedTransitively(q) : q \in SpawnedBy(p)}

\* C17: the resolved list starts with the main instance of the correlation and
\* continues with exactly the instances transitively started from it through
\* call activities, each once and no other instance (the caller links below a
\* main instance form a tree in every store).
C17_MainThenSpawnedClosure ==
  (InstancesResolved /\ lastRead.err = "none") =>
    /\ Len(lastRead.val) >= 1
    /\ lastRead.val[1] \in MainInstancesOf(lastRead.correlationId)
    /\ NoDuplicates(lastRead.val)
    /\ Range(Tail(lastRead.val)) = SpawnedTransitively(lastRead.val[1])

\* The main instance has two call activities with one sub-instance each, one of
\* which started a nested instance: four instances, the main one first.
C17_Witness ==
  /\ InstancesResolved
  /\ lastRead.err = "none"
  /\ Len(lastRead.val) = 4
  /\ Cardinality(SpawnedBy(lastRead.val[1])) = 2
  /\ \E q \in SpawnedBy(lastRead.val[1]) : Cardinality(SpawnedBy(q)) = 1
  /\ Cardinality({processes[q].callerId : q \in SpawnedBy(lastRead.val[1])}) = 2

ResolvingInstances == lastRead.op = "_getProcessInstancesForCorrelation"

\* C18: the traversal started from the main instance of a correlation ends
\* after finitely many engine queries on every store: _getSubProcessInstances
\* is invoked at most once per process instance of the store, every pending
\* invocation can take its next step, and the request has its result as soon
\* as no invocation is pending.
C18_DiscoveryTerminates ==
  ResolvingInstances =>
    /\ lastRead.invocations <= Cardinality(DOMAIN processes)
    /\ lastRead.pc = "running" =>
         /\ Len(lastRead.stack) >= 1
         /\ LET top == lastRead.stack[Len(lastRead.stack)]
            IN top.i <= Len(top.processes) => lastRead.invocations < MaxInvocations
    /\ lastRead.pc = "done" <=> lastRead.stack = << >>

\* A traversal that went three invocations deep (main, sub-instance, nested
\* sub-instance) and has come to its result.
C18_Witness ==
  /\ InstancesResolved
  /\ lastRead.err = "none"
  /\ lastRead.invocations = Cardinality(DOMAIN processes)
  /\ \E q \in SpawnedBy(lastRead.val[1]) : SpawnedBy(q) # {}

\* The process instances the aggregation runs over.
AggregatedInstances == _getProcessInstancesForCorrelation(impl, lastRead.correlationId)

HasProcessModel(p) == p.processDefKey \in DOMAIN definitions.processDefs

WithoutAccessibleLane(identity, p) ==
  HasProcessModel(p) /\ AccessibleLanesOfModel(identity, p.processDefKey) = {}

\* C11: while the user tasks of a correlation are aggregated, an instance for
\* which the identity has no accessible lane contributes no task and does not
\* abort the aggregation: the tasks of the other instances are returned.  An
\* error other than Forbidden raised for an instance (NotFound for an instance
\* whose process model the store does not hold) aborts the operation and is the
\* error of the request.
C11_ForbiddenInstanceSkipped ==
  (lastRead.op = "_getUserTasksForCorrelation" /\ AggregatedInstances.err = "none") =>
    LET instances == AggregatedInstances.val
        identity == lastRead.identity
    IN IF \E i \in 1..Len(instances) : ~HasProcessModel(instances[i])
       THEN lastRead.err = "NotFound" /\ lastRead.val = << >>
       ELSE /\ lastRead.err = "none"
            /\ \A i \in 1..Len(instances) :
                 IF WithoutAccessibleLane(identity, instances[i])
                 THEN \A t \in Range(lastRead.val) :
                        nodeInstances[t].process # instances[i].id
                 ELSE Range(EntityIds(_getAccessibleUserTasksForProcessInstance(
                                        impl, identity, instances[i]).val))
                        \subseteq Range(lastRead.val)

\* An instance with a waiting user task and no accessible lane is skipped and a
\* task of another instance of the correlation is returned.
C11_Witness ==
  /\ lastRead.op = "_getUserTasksForCorrelation"
  /\ lastRead.err = "none"
  /\ Len(lastRead.val) > 0
  /\ AggregatedInstances.err = "none"
  /\ \E i \in 1..Len(AggregatedInstances.val) :
       /\ WithoutAccessibleLane(lastRead.identity, AggregatedInstances.val[i])
       /\ \E t \in DOMAIN nodeInstances :
            /\ nodeInstances[t].type = "userTask"
            /\ nodeInstances[t].process = AggregatedInstances.val[i].id

(***************************************************************************)
(* Properties of ConsumerApiService (ServiceSpec)                          *)
(***************************************************************************)
ResultAnswer == lastRead.op = "getProcessResultForCorrelation" /\ lastRead.err = "none"

\* The flow-node instances of the correlation that sit on an end event of the
\* requested process model.
EndEventInstancesOf(correlationId, processModelId) ==
  {n \in DOMAIN nodeInstances :
     /\ processes[nodeInstances[n].process].correlationId = correlationId
     /\ processes[nodeInstances[n].process].processDefKey = processModelId
     /\ \E i \in 1..Len(definitions.processDefs[processModelId].flowNodes) :
          /\ definitions.processDefs[processModelId].flowNodes[i].key = nodeInstances[n].key
          /\ definitions.processDefs[processModelId].flowNodes[i].type = "endEvent"}

ReachedByStarter(n) == processes[nodeInstances[n].process].callerId = Undefined

\* C19: getProcessResultForCorrelation returns a result for exactly the
\* flow-node instances of the correlation that are end events of the requested
\* process model and whose token has no caller (one list entry each in
\* ioc_module.js; in part_000 the merged object has exactly the keys of their
\* payloads, with values of theirs); an end-event instance reached inside a
\* called sub-process contributes nothing.
C19_ResultsOfStarterEndEvents ==
  ResultAnswer =>
    LET counted == {n \in EndEventInstancesOf(lastRead.correlationId, lastRead.processModelKey) :
                      ReachedByStarter(n)}
    IN IF lastRead.copy = "ioc_module"
       THEN /\ {lastRead.val[i].ofInstance : i \in 1..Len(lastRead.val)} = counted
            /\ Len(lastRead.val) = Cardinality(counted)
            /\ \A i \in 1..Len(lastRead.val) :
                 lastRead.val[i].tokenPayload = EndEventPayloads[lastRead.val[i].ofInstance]
       ELSE /\ DOMAIN lastRead.val[1] = UNION {DOMAIN EndEventPayloads[n] : n \in counted}
            /\ \A k \in DOMAIN lastRead.val[1] :
                 \E n \in counted : /\ k \in DOMAIN EndEventPayloads[n]
                                    /\ lastRead.val[1][k] = EndEventPayloads[n][k]

\* Three end-event instances of the requested model in the correlation, one of
\* them reached in a called sub-process: two results.
C19_Witness ==
  /\ ResultAnswer
  /\ lastRead.copy = "ioc_module"
  /\ Cardinality(EndEventInstancesOf(lastRead.correlationId, lastRead.processModelKey)) = 3
  /\ Len(lastRead.val) = 2

StartAnswer == lastRead.op = "startProcessInstance"

StartedModelIsKnown ==
  StartAnswer /\ lastRead.processModelKey \in DOMAIN definitions.processDefs

IsFlowNodeOfStartedModel(id) ==
  \E i \in 1..Len(definitions.processDefs[lastRead.processModelKey].flowNodes) :
     definitions.processDefs[lastRead.processModelKey].flowNodes[i].key = id

EndEventIdIsGiven == lastRead.endEventId \notin {Undefined, ""}

\* The request is malformed: callback type not defined, model not executable,
\* or OnEndEventReached without an end event id.
StartIsBadRequest ==
  \/ lastRead.startCallbackType \notin StartCallbackType
  \/ ~definitions.processDefs[lastRead.processModelKey].isExecutable
  \/ lastRead.startCallbackType = "CallbackOnEndEventReached" /\ ~EndEventIdIsGiven

\* The request names an event the model does not have.
StartIsNotFound ==
  \/ ~IsFlowNodeOfStartedModel(lastRead.startEventId)
  \/ /\ lastRead.startCallbackType = "CallbackOnEndEventReached"
     /\ EndEventIdIsGiven
     /\ ~IsFlowNodeOfStartedModel(lastRead.endEventId)

HandledWhilePending(c) == lastEvent[c].handled > 0 /\ ~lastEvent[c].settledBefore

Settled(c) == calls[c].pc \in {"resolved", "rejected"}

\* C21: when the engine reports an 'error' event while a start call awaits an
\* end event, the call rejects with InternalServerError and the one fixed
\* message, whatever the content of the engine's error is.
C21_ErrorRejectsWithFixedMessage ==
  \A c \in CallIds :
    (HandledWhilePending(c) /\ lastEvent[c].message.event = "error") =>
      /\ calls[c].pc = "rejected"
      /\ calls[c].error = "InternalServerError"
      /\ calls[c].message = FailedMessage

\* The last message the handler of c has run with is the awaited one.
AwaitedEnd(c) ==
  /\ lastEvent[c].message.event = "end"
  /\ \/ calls[c].endEventToWaitFor = Undefined
     \/ lastEvent[c].message.endEventKey = calls[c].endEventToWaitFor

\* It is an 'end' message of another end event, or of no kind the handler acts on.
NeitherAwaitedNorFailure(c) ==
  \/ lastEvent[c].message.event = "end" /\ ~AwaitedEnd(c)
  \/ lastEvent[c].message.event \notin {"end", "error", "terminate"}

C27_ResolvesWithAssignedCorrelationId ==
  \A c \in CallIds :
    calls[c].pc = "resolved" =>
      /\ calls[c].value # Undefined
      /\ calls[c].value = processes[calls[c].processInstanceId].correlationId

\* C28: the subscription on the process channel is cancelled on every outcome
\* that settles the call (resolve on the awaited end event, reject on 'error',
\* reject on 'terminate'): no subscription of a settled call is registered and
\* the handler of a settled call is not run again.
C28_CancelledOnEverySettlement ==
  \A c \in CallIds :
    /\ Settled(c) => ~Registered(c)
    /\ ~lastEvent[c].settledBefore

(***************************************************************************)
(* Properties of the read operations (ReadSpec)                            *)
(***************************************************************************)
ReadAnswered == lastRead' # lastRead /\ lastRead'.op # "none"

\* C22: the read operations getProcessModels, getProcessModelByKey,
\* getProcessResultForCorrelation and getUserTasksForProcessModel, ForCorrelation
\* and ForProcessModelInCorrelation leave the process definitions, the process
\* instances and the flow-node instances with their tokens unchanged and publish
\* nothing on the bus, whether they succeed or fail.
C22_ReadsChangeNothing ==
  [][ReadAnswered =>
       UNCHANGED <<definitions, processes, nodeInstances, subscriptions, inflight, busLog>>]_vars

C22_Witness ==
  /\ lastRead.op = "getUserTasksForCorrelation"
  /\ lastRead.err = "none"
  /\ Len(lastRead.val) > 0
  /\ \A t \in DOMAIN nodeInstances : nodeInstances[t] = NodeInstanceTable[t]
  /\ inflight = {}

(***************************************************************************)
(* Properties of the task lists (FormSpec)                                 *)
(***************************************************************************)
UserTaskReadOps ==
  {"getUserTasksForProcessModel", "getUserTasksForCorrelation",
   "getUserTasksForProcessModelInCorrelation"}

\* The definition of the user task instance has form fields.
FormFieldsOfInstance(t) ==
  LET flowNodes == definitions.processDefs[processes[nodeInstances[t].process].processDefKey].flowNodes
  IN \E i \in 1..Len(flowNodes) :
       flowNodes[i].key = nodeInstances[t].key /\ flowNodes[i].formFields = "formFields"

\* The instance is a suspended user task the read request asks for.
InScopeOfRead(t) ==
  /\ nodeInstances[t].type = "userTask"
  /\ nodeInstances[t].state = "wait"
  /\ lastRead.op \in {"getUserTasksForProcessModel", "getUserTasksForProcessModelInCorrelation"}
       => processes[nodeInstances[t].process].processDefKey = lastRead.processModelKey
  /\ lastRead.op \in {"getUserTasksForCorrelation", "getUserTasksForProcessModelInCorrelation"}
       => processes[nodeInstances[t].process].correlationId = lastRead.correlationId

\* The flow node of the instance is referenced by one lane only, a lane without
\* child lane set that the identity of the request can access.
VisibleToReader(t) ==
  LET processModelKey == processes[nodeInstances[t].process].processDefKey
      referencing == {l \in DOMAIN definitions.lanes :
                        nodeInstances[t].key \in definitions.lanes[l].flowNodeRef}
  IN /\ Cardinality(referencing) = 1
     /\ \A l \in referencing :
          /\ definitions.lanes[l].childLaneSet = Undefined
          /\ l \in AccessibleLanesOfModel(lastRead.identity, processModelKey)

\* C23: when a visible user task's definition has no form fields (extensions
\* missing or null, formFields undefined or empty), the task-list request fails
\* with UnprocessableEntity and returns no task at all; a task is never
\* returned without a form (adapter copies).
C23_UnprocessableWithoutFormFields ==
  (impl \in Adapters /\ lastRead.op \in UserTaskReadOps) =>
    /\ lastRead.err = "none" =>
         \A i \in 1..Len(lastRead.val) : FormFieldsOfInstance(lastRead.val[i].ofInstance)
    /\ (\E t \in DOMAIN nodeInstances :
          InScopeOfRead(t) /\ VisibleToReader(t) /\ ~FormFieldsOfInstance(t)) =>
         lastRead.err = "UnprocessableEntity" /\ lastRead.val = << >>

(***************************************************************************)
(* Further properties of finishUserTask (Spec)                             *)
(***************************************************************************)
\* C24: for any suspended user task at most one proceed/finish message is
\* published while the task is outstanding, also when several finishUserTask
\* calls for the same task run concurrently: no two calls have published for
\* the same flow-node instance.
C24_AtMostOneProceedPerTask ==
  \A c1 \in CallIds : \A c2 \in CallIds \ {c1} :
    ~ /\ calls[c1].stage = "rendezvous"
      /\ calls[c2].stage = "rendezvous"
      /\ calls[c1].instance = calls[c2].instance

\* The step that ends the lookup of a call: an id that is not listed is answered
\* with NotFound whatever the result is, BadRequest needs a listed id.
LookupBeforeValidationStep ==
  \A c \in CallIds :
    (calls[c].pc = "resolving" /\ calls'[c].pc # "resolving") =>
      /\ calls'[c].userTaskId \notin ListedIds(c) =>
           calls'[c].error = "NotFound" /\ calls'[c].stage = "find"
      /\ calls'[c].error = "BadRequest" =>
           calls'[c].userTaskId \in ListedIds(c) /\ calls'[c].stage = "validate"

\* C25: finishUserTask resolves the task before it validates the payload: a call
\* with an unknown task id fails with NotFound also when its result is
\* malformed, and BadRequest is returned only for a task of the listed set.
C25_LookupBeforeValidation == [][LookupBeforeValidationStep]_vars

\* One call was refused by the lookup, the other by the validation of a result
\* for a listed task.
C25_Witness ==
  \E c \in CallIds, d \in CallIds :
    /\ calls[c].pc = "rejected"
    /\ calls[c].stage = "find"
    /\ calls[c].error = "NotFound"
    /\ calls[d].pc = "rejected"
    /\ calls[d].stage = "validate"
    /\ calls[d].error = "BadRequest"
    /\ calls[d].userTaskId = "UT1"

(***************************************************************************)
(* Properties of the model-key traversal (ModelKeySpec)                    *)
(***************************************************************************)
ResolvingModelKeys == lastRead.op = "_getProcessModelKeysForCorrelation"

\* C29: the traversal that collects the process-model keys of a correlation
\* ends on every set of process definitions: no invocation of
\* _getSubProcessModelKeys is pending for a model for which an invocation is
\* pending already (such an invocation repeats the pending one and never
\* returns), every pending invocation can take its next step, and the request
\* has its result as soon as no invocation is pending.
C29_ModelKeyTraversalTerminates ==
  ResolvingModelKeys =>
    /\ \A i \in 1..Len(lastRead.stack) : \A j \in 1..Len(lastRead.stack) :
         lastRead.stack[i].key = lastRead.stack[j].key => i = j
    /\ lastRead.pc = "running" =>
         /\ Len(lastRead.stack) >= 1
         /\ LET top == lastRead.stack[Len(lastRead.stack)]
            IN top.i <= Len(top.keys) => lastRead.invocations < MaxInvocations
    /\ lastRead.pc = "done" <=> lastRead.stack = << >>

(***************************************************************************)
(* Properties of the event triggers (EventSpec)                            *)
(***************************************************************************)
ClaimRequiredBy(op) ==
  IF op = "triggerMessageEvent" THEN canTriggerMessagesClaim ELSE canTriggerSignalsClaim

TriggeredEvent(call) ==
  [eventName |-> <<IF call.op = "triggerMessageEvent" THEN "messageEventReached"
                   ELSE "signalEventReached", call.name>>,
   payload |-> call.payload]

\* C30: triggerMessageEvent and triggerSignalEvent publish only after the
\* claim check of the identity (can_trigger_messages, can_trigger_signals)
\* succeeded: a call that still awaits the check has published nothing, a call
\* of an identity without the claim ends with the failure of the check and has
\* published nothing, a call of an identity with the claim has published its
\* one event; the aggregator received nothing but the events of such calls.
C30_PublishOnlyAfterClaimCheck ==
  /\ \A c \in CallIds :
       LET call == calls[c]
       IN /\ call.pc \in {"idle", "checking"} => busLog[c] = << >>
          /\ call.pc = "done" /\ ~hasClaim(call.identity, ClaimRequiredBy(call.op)) =>
               /\ call.error = "Forbidden"
               /\ busLog[c] = << >>
          /\ call.pc = "done" /\ hasClaim(call.identity, ClaimRequiredBy(call.op)) =>
               /\ call.error = "none"
               /\ busLog[c] = <<TriggeredEvent(call)>>
  /\ \A event \in inflight :
       \E c \in CallIds :
         /\ calls[c].pc = "done"
         /\ hasClaim(calls[c].identity, ClaimRequiredBy(calls[c].op))
         /\ event = TriggeredEvent(calls[c])

\* A message trigger of an identity that may only trigger signals failed, and
\* a signal trigger of the same identity published.
C30_Witness ==
  /\ calls["r1"].pc = "done"
  /\ calls["r1"].op = "triggerMessageEvent"
  /\ calls["r1"].identity = {canTriggerSignalsClaim}
  /\ calls["r1"].error = "Forbidden"
  /\ calls["r2"].pc = "done"
  /\ calls["r2"].op = "triggerSignalEvent"
  /\ calls["r2"].identity = {canTriggerSignalsClaim}
  /\ inflight = {TriggeredEvent(calls["r2"])}

====
